---- MODULE Spec2Model ----
(***************************************************************************)
(* The planar-geometry subsystem of divide-conquer-processor               *)
(* (src/src/geometry.rs): closest pair (brute force and divide & conquer), *)
(* Graham scan, segment intersection and the k-d tree.                     *)
(* The sorts of src/src/sorting.rs follow: merge, quick, heap and          *)
(* optimized quick sort on small integers, radix sort on i32.              *)
(*                                                                         *)
(* Numbers.  Coordinates are f64 in the source.  The model draws them from *)
(* a small grid of integers, on which every f64 sum, difference and        *)
(* product of the source is exact.  A value produced by sqrt() is          *)
(* represented by its radicand: sqrt is strictly increasing and correctly  *)
(* rounded, so two distances compare as their radicands do, and a          *)
(* non-negative integer v satisfies v < sqrt(r) exactly when v*v < r.      *)
(* atan2 is compared through the exact angle: on the grid two points with  *)
(* the same direction from the origin have bit-identical atan2 values and  *)
(* two points with different directions differ by far more than one ulp.   *)
(***************************************************************************)
EXTENDS Integers, Sequences, FiniteSets, TLC

\* ---------------------------------------------------------------- bounds
\* closest pair: a grid of (CpMaxX+1) x (CpMaxY+1) points, every input order
\* up to CpMaxPoints points and the inputs in (x, y) order up to CpMaxSorted
CpMaxX == 2
CpMaxY == 1
CpMaxPoints == 3
CpMaxSorted == 7

\* the strip scan: the inputs in (x, y) order up to StripMaxSorted points
StripMaxSorted == 9
\* convex hull
HullMaxCoord == 2
HullMaxPoints == 3
HullMaxSorted == 5
\* segments
SegMaxCoord == 3
\* k-d tree
KdMaxCoord == 2
KdMaxPoints == 2
KdMaxSorted == 5
\* find_intersecting_segments
FisMaxCoord == 1
FisMaxSegments == 2
FisMaxSorted == 3
\* index safety: all six functions on one small grid
NfMaxCoord == 1
NfMaxPoints == 3
NfMaxSorted == 7
\* sorting: values 0..SortMaxVal, every array up to SortMaxLen elements and
\* the arrays up to SortMaxLong elements that continue one of them with a
\* monotone run
SortMaxVal == 2
SortMaxLen == 2
SortMaxLong == 11
\* radix sort: the values -RadixMaxVal..RadixMaxVal and the two ends of
\* the i32 range, arrays of up to RadixMaxLen elements
RadixMaxVal == 12
RadixMaxLen == 2

\* parallel sorts: arrays of up to ParMaxLen values of 0..ParMaxVal.  The
\* source hands the two halves to rayon::join when the range is longer than
\* 1000 and the depth is below 4; arrays of that length are out of reach, so
\* the model keeps the test and scales the two numbers down to ParallelRange
\* and ParallelDepth.
ParMaxVal == 1
ParMaxLen == 5
ParallelRange == 1
ParallelDepth == 2

VARIABLES
    points,     \* the input slice of points
    tree,       \* the KdTree built from it
    query,      \* the query point of nearest_neighbor
    seg_a,      \* the segments of intersects
    seg_b,
    segments,   \* the input slice of find_intersecting_segments
    arr,        \* the array handed to a sort
    op,         \* "input", then the function that was called
    result,     \* what it returned
    calls       \* the calls of a parallel sort that are in progress

vars == <<points, tree, query, seg_a, seg_b, segments, arr, op, result, calls>>

\* ---------------------------------------------------------------- Point
Point(x, y) == [x |-> x, y |-> y]

GridOf(mx, my) == {Point(x, y) : x \in 0..mx, y \in 0..my}

CpGrid == GridOf(CpMaxX, CpMaxY)
HullGrid == GridOf(HullMaxCoord, HullMaxCoord)
SegGrid == GridOf(SegMaxCoord, SegMaxCoord)
KdGrid == GridOf(KdMaxCoord, KdMaxCoord)

\* Option<T>
None == <<>>
Some(v) == <<v>>
IsSome(o) == Len(o) = 1
Unwrap(o) == o[1]

\* f64::INFINITY, as a distance value
INFINITY == 0 - 1

\* a < b on distance values (radicands, INFINITY above all of them)
DistLt(a, b) == IF a = INFINITY THEN FALSE ELSE IF b = INFINITY THEN TRUE ELSE a < b

\* a <= b on distance values
DistLe(a, b) == ~DistLt(b, a)

\* v < d for a coordinate difference v (an integer) and a distance value d
CoordLtDist(v, d) == IF d = INFINITY THEN TRUE ELSE v < 0 \/ v * v < d

Abs(v) == IF v < 0 THEN 0 - v ELSE v

\* (i, j) before (k, l) in lexicographic order
PairLt(a, b) == a[1] < b[1] \/ (a[1] = b[1] /\ a[2] < b[2])

\* Point::distance_squared_to
distance_squared_to(p, q) == (p.x - q.x) * (p.x - q.x) + (p.y - q.y) * (p.y - q.y)

\* Point::distance_to: sqrt of the above, represented by its radicand
distance_to(p, q) == (p.x - q.x) * (p.x - q.x) + (p.y - q.y) * (p.y - q.y)

ClosestPairResult(p1, p2, d) == [point1 |-> p1, point2 |-> p2, distance |-> d]

\* ---------------------------------------------------------------- sorting
\* a.x or a.y, the key of the sort_by closures
Coord(p, d) == IF d = 0 THEN p.x ELSE p.y

\* slice::sort_by is stable: an element goes after every element whose key
\* is not greater than its own.
RECURSIVE InsertByCoord(_, _, _)
InsertByCoord(s, e, d) ==
    IF s = <<>> THEN <<e>>
    ELSE IF Coord(s[Len(s)], d) <= Coord(e, d) THEN Append(s, e)
    ELSE Append(InsertByCoord(SubSeq(s, 1, Len(s) - 1), e, d), s[Len(s)])

RECURSIVE sort_by_coord(_, _)
sort_by_coord(s, d) ==
    IF s = <<>> THEN <<>>
    ELSE InsertByCoord(sort_by_coord(SubSeq(s, 1, Len(s) - 1), d), s[Len(s)], d)

\* a loop that also replaces the minimum on an equal distance
RECURSIVE BruteForceLoopOnEqual(_, _, _, _)
BruteForceLoopOnEqual(ps, i, j, acc) ==
    IF i > Len(ps) THEN acc
    ELSE IF j > Len(ps) THEN BruteForceLoopOnEqual(ps, i + 1, i + 2, acc)
    ELSE LET distance == distance_to(ps[i], ps[j])
         IN  IF DistLe(distance, acc[1])
             THEN BruteForceLoopOnEqual(ps, i, j + 1, <<distance, ps[i], ps[j]>>)
             ELSE BruteForceLoopOnEqual(ps, i, j + 1, acc)

\* ---------------------------------------------------------------- closest pair
\* The double loop of closest_pair_brute_force from position (i, j) on,
\* 1-based; acc is <<min_distance, closest_pair.0, closest_pair.1>>.
RECURSIVE BruteForceLoop(_, _, _, _)
BruteForceLoop(ps, i, j, acc) ==
    IF i > Len(ps) THEN acc
    ELSE IF j > Len(ps) THEN BruteForceLoop(ps, i + 1, i + 2, acc)
    ELSE LET distance == distance_to(ps[i], ps[j])
         IN  IF DistLt(distance, acc[1])
             THEN BruteForceLoop(ps, i, j + 1, <<distance, ps[i], ps[j]>>)
             ELSE BruteForceLoop(ps, i, j + 1, acc)

\* the pairs of positions the loops of closest_pair_brute_force compare,
\* in the order they compare them, from (i, j) on
RECURSIVE BruteForceCompared(_, _, _)
BruteForceCompared(ps, i, j) ==
    IF i > Len(ps) THEN <<>>
    ELSE IF j > Len(ps) THEN BruteForceCompared(ps, i + 1, i + 2)
    ELSE <<<<i, j>>>> \o BruteForceCompared(ps, i, j + 1)

\* a brute force that returns early only for the empty slice
closest_pair_brute_force_empty_only(ps) ==
    IF Len(ps) < 1 THEN None
    ELSE LET acc == BruteForceLoop(ps, 1, 2, <<INFINITY, ps[1], ps[Len(ps)]>>)
         IN  Some(ClosestPairResult(acc[2], acc[3], acc[1]))

\* a brute force that stops at the first pair
closest_pair_first_pair(ps) ==
    IF Len(ps) < 2 THEN None
    ELSE Some(ClosestPairResult(ps[1], ps[2], distance_to(ps[1], ps[2])))

closest_pair_brute_force(ps) ==
    IF Len(ps) < 2 THEN None
    ELSE LET acc == BruteForceLoop(ps, 1, 2, <<INFINITY, ps[1], ps[2]>>)
         IN  Some(ClosestPairResult(acc[2], acc[3], acc[1]))

\* a partition that collects the left subset back to front
RECURSIVE LeftYReversed(_, _)
LeftYReversed(s, mx) ==
    IF s = <<>> THEN <<>>
    ELSE IF s[1].x <= mx THEN LeftYReversed(Tail(s), mx) \o <<s[1]>>
         ELSE LeftYReversed(Tail(s), mx)

\* the points of s that satisfy the test, in order (the push loops)
RECURSIVE LeftY(_, _)
LeftY(s, mx) ==
    IF s = <<>> THEN <<>>
    ELSE IF s[1].x <= mx THEN <<s[1]>> \o LeftY(Tail(s), mx) ELSE LeftY(Tail(s), mx)

RECURSIVE RightY(_, _)
RightY(s, mx) ==
    IF s = <<>> THEN <<>>
    ELSE IF s[1].x <= mx THEN RightY(Tail(s), mx) ELSE <<s[1]>> \o RightY(Tail(s), mx)

RECURSIVE Strip(_, _, _)
Strip(s, mx, d) ==
    IF s = <<>> THEN <<>>
    ELSE IF CoordLtDist(Abs(s[1].x - mx), d)
         THEN <<s[1]>> \o Strip(Tail(s), mx, d)
         ELSE Strip(Tail(s), mx, d)

\* a strip scan that never looks across the dividing line
StripScanSkipped(strip, i, j, min_result) == min_result

\* the strip scan from (i, j) on, 1-based
RECURSIVE StripScan(_, _, _, _)
StripScan(strip, i, j, min_result) ==
    IF i > Len(strip) THEN min_result
    ELSE IF j <= Len(strip) /\ CoordLtDist(strip[j].y - strip[i].y, min_result.distance)
         THEN LET distance == distance_to(strip[i], strip[j])
              IN  IF DistLt(distance, min_result.distance)
                  THEN StripScan(strip, i, j + 1,
                                 ClosestPairResult(strip[i], strip[j], distance))
                  ELSE StripScan(strip, i, j + 1, min_result)
         ELSE StripScan(strip, i + 1, i + 2, min_result)

\* match (left_result, right_result)
Combine(left_result, right_result) ==
    IF IsSome(left_result) /\ IsSome(right_result)
    THEN IF DistLe(Unwrap(left_result).distance, Unwrap(right_result).distance)
         THEN left_result ELSE right_result
    ELSE IF IsSome(left_result) THEN left_result
    ELSE right_result

\* a recursion that falls back to brute force only below two points
RECURSIVE closest_pair_rec_base_one(_, _)
closest_pair_rec_base_one(points_x, points_y) ==
    LET n == Len(points_x) IN
    IF n <= 1 THEN closest_pair_brute_force(points_x)
    ELSE LET mid == n \div 2
             midpoint == points_x[mid + 1]
             left_result == closest_pair_rec_base_one(SubSeq(points_x, 1, mid),
                                                      LeftY(points_y, midpoint.x))
             right_result == closest_pair_rec_base_one(SubSeq(points_x, mid + 1, n),
                                                       RightY(points_y, midpoint.x))
             best == Combine(left_result, right_result)
         IN  IF best = None THEN None
             ELSE LET strip == Strip(points_y, midpoint.x, Unwrap(best).distance)
                  IN  Some(StripScan(strip, 1, 2, Unwrap(best)))

RECURSIVE closest_pair_rec(_, _)
closest_pair_rec(points_x, points_y) ==
    LET n == Len(points_x) IN
    IF n <= 3 THEN closest_pair_brute_force(points_x)
    ELSE LET mid == n \div 2
             midpoint == points_x[mid + 1]
             left_x == SubSeq(points_x, 1, mid)
             right_x == SubSeq(points_x, mid + 1, n)
             left_y == LeftY(points_y, midpoint.x)
             right_y == RightY(points_y, midpoint.x)
             left_result == closest_pair_rec(left_x, left_y)
             right_result == closest_pair_rec(right_x, right_y)
             best == Combine(left_result, right_result)
         IN  IF best = None THEN None
             ELSE LET strip == Strip(points_y, midpoint.x, Unwrap(best).distance)
                  IN  Some(StripScan(strip, 1, 2, Unwrap(best)))

\* every call of closest_pair_rec made for (points_x, points_y), itself
\* included: the two views it receives and what it returns
RECURSIVE RecCalls(_, _)
RecCalls(points_x, points_y) ==
    LET n == Len(points_x)
        call == [points_x |-> points_x, points_y |-> points_y,
                 result |-> closest_pair_rec(points_x, points_y)]
    IN  IF n <= 3 THEN {call}
        ELSE LET mid == n \div 2
                 midpoint == points_x[mid + 1]
             IN  {call}
                 \cup RecCalls(SubSeq(points_x, 1, mid), LeftY(points_y, midpoint.x))
                 \cup RecCalls(SubSeq(points_x, mid + 1, n), RightY(points_y, midpoint.x))

\* how deep the calls of closest_pair_rec nest for (points_x, points_y),
\* the call itself counted
RECURSIVE RecDepth(_, _)
RecDepth(points_x, points_y) ==
    LET n == Len(points_x) IN
    IF n <= 3 THEN 1
    ELSE LET mid == n \div 2
             midpoint == points_x[mid + 1]
             left == RecDepth(SubSeq(points_x, 1, mid), LeftY(points_y, midpoint.x))
             right == RecDepth(SubSeq(points_x, mid + 1, n), RightY(points_y, midpoint.x))
         IN  1 + (IF left >= right THEN left ELSE right)

\* what a call on more than 3 points works with: the better of the results
\* of its two recursive calls, and the strip it builds from its y-view
CallLeft(call) ==
    LET mid == Len(call.points_x) \div 2
    IN  closest_pair_rec(SubSeq(call.points_x, 1, mid),
                         LeftY(call.points_y, call.points_x[mid + 1].x))

CallRight(call) ==
    LET mid == Len(call.points_x) \div 2
    IN  closest_pair_rec(SubSeq(call.points_x, mid + 1, Len(call.points_x)),
                         RightY(call.points_y, call.points_x[mid + 1].x))

CallBest(call) == Combine(CallLeft(call), CallRight(call))

CallStrip(call) ==
    Strip(call.points_y, call.points_x[Len(call.points_x) \div 2 + 1].x,
          Unwrap(CallBest(call)).distance)

\* the strip scan from (i, j) on, counted: count is the number of points
\* strip[i] has been compared with so far; the result is the largest count
\* that any point reaches, most being the largest so far
RECURSIVE StripScanMost(_, _, _, _, _, _)
StripScanMost(strip, i, j, min_result, count, most) ==
    IF i > Len(strip) THEN most
    ELSE IF j <= Len(strip) /\ CoordLtDist(strip[j].y - strip[i].y, min_result.distance)
         THEN LET distance == distance_to(strip[i], strip[j])
                  next_result == IF DistLt(distance, min_result.distance)
                                 THEN ClosestPairResult(strip[i], strip[j], distance)
                                 ELSE min_result
              IN  StripScanMost(strip, i, j + 1, next_result, count + 1,
                                IF count + 1 > most THEN count + 1 ELSE most)
         ELSE StripScanMost(strip, i + 1, i + 2, min_result, 0, most)

\* a strip scan that compares nothing
StripScanComparedNothing(strip, i, j, min_result, compared) ==
    [min_result |-> min_result, compared |-> compared]

\* the strip scan from (i, j) on, with the pairs of strip positions whose
\* distance it computes
RECURSIVE StripScanCompared(_, _, _, _, _)
StripScanCompared(strip, i, j, min_result, compared) ==
    IF i > Len(strip) THEN [min_result |-> min_result, compared |-> compared]
    ELSE IF j <= Len(strip) /\ CoordLtDist(strip[j].y - strip[i].y, min_result.distance)
         THEN LET distance == distance_to(strip[i], strip[j])
                  next_result == IF DistLt(distance, min_result.distance)
                                 THEN ClosestPairResult(strip[i], strip[j], distance)
                                 ELSE min_result
              IN  StripScanCompared(strip, i, j + 1, next_result,
                                    compared \cup {<<i, j>>})
         ELSE StripScanCompared(strip, i + 1, i + 2, min_result, compared)

closest_pair_divide_conquer(ps) ==
    IF Len(ps) < 2 THEN None
    ELSE closest_pair_rec(sort_by_coord(ps, 0), sort_by_coord(ps, 1))

\* ---------------------------------------------------------------- convex hull
cross_product(o, a, b) == (a.x - o.x) * (b.y - o.y) - (a.y - o.y) * (b.x - o.x)

\* polar_angle: atan2(point.y - origin.y, point.x - origin.x), kept as the
\* vector whose angle it is
polar_angle(origin, point) == [dx |-> point.x - origin.x, dy |-> point.y - origin.y]

\* where atan2 puts a vector: below the x axis (-pi, 0), on its positive half
\* or at the origin (0), above it (0, pi), on its negative half (pi)
AngleClass(v) ==
    IF v.dy < 0 THEN 0
    ELSE IF v.dy > 0 THEN 2
    ELSE IF v.dx >= 0 THEN 1
    ELSE 3

\* angle_a <= angle_b
AngleLe(va, vb) ==
    IF AngleClass(va) # AngleClass(vb) THEN AngleClass(va) < AngleClass(vb)
    ELSE IF AngleClass(va) \in {1, 3} THEN TRUE
    ELSE va.dx * vb.dy - va.dy * vb.dx >= 0

\* an anchor search that forgets the tie-break on x
RECURSIVE BottomPointNoTieBreak(_, _)
BottomPointNoTieBreak(s, bottom_point) ==
    IF s = <<>> THEN bottom_point
    ELSE IF s[1].y < bottom_point.y
         THEN BottomPointNoTieBreak(Tail(s), s[1])
         ELSE BottomPointNoTieBreak(Tail(s), bottom_point)

\* the loop that finds the bottom-most, then left-most, point
RECURSIVE BottomPoint(_, _)
BottomPoint(s, bottom_point) ==
    IF s = <<>> THEN bottom_point
    ELSE LET point == s[1]
         IN  IF point.y < bottom_point.y
                \/ (point.y = bottom_point.y /\ point.x < bottom_point.x)
             THEN BottomPoint(Tail(s), point)
             ELSE BottomPoint(Tail(s), bottom_point)

\* .filter(|&&p| p != bottom_point)
RECURSIVE FilterNot(_, _)
FilterNot(s, bottom_point) ==
    IF s = <<>> THEN <<>>
    ELSE IF s[1] # bottom_point THEN <<s[1]>> \o FilterNot(Tail(s), bottom_point)
    ELSE FilterNot(Tail(s), bottom_point)

\* the stable sort_by on the polar angle around bottom_point
RECURSIVE InsertByAngle(_, _, _)
InsertByAngle(s, e, bottom_point) ==
    IF s = <<>> THEN <<e>>
    ELSE IF AngleLe(polar_angle(bottom_point, s[Len(s)]), polar_angle(bottom_point, e))
         THEN Append(s, e)
    ELSE Append(InsertByAngle(SubSeq(s, 1, Len(s) - 1), e, bottom_point), s[Len(s)])

RECURSIVE sort_by_angle(_, _)
sort_by_angle(s, bottom_point) ==
    IF s = <<>> THEN <<>>
    ELSE InsertByAngle(sort_by_angle(SubSeq(s, 1, Len(s) - 1), bottom_point),
                       s[Len(s)], bottom_point)

\* a scan that keeps collinear points: it pops on a clockwise turn only
RECURSIVE PopWhileClockwiseOnly(_, _)
PopWhileClockwiseOnly(hull, point) ==
    IF Len(hull) > 1 /\ cross_product(hull[Len(hull) - 1], hull[Len(hull)], point) < 0
    THEN PopWhileClockwiseOnly(SubSeq(hull, 1, Len(hull) - 1), point)
    ELSE hull

\* while hull.len() > 1 && cross_product(..) <= 0.0 { hull.pop(); }
RECURSIVE PopWhile(_, _)
PopWhile(hull, point) ==
    IF Len(hull) > 1 /\ cross_product(hull[Len(hull) - 1], hull[Len(hull)], point) <= 0
    THEN PopWhile(SubSeq(hull, 1, Len(hull) - 1), point)
    ELSE hull

\* for point in sorted_points { ... hull.push(point); }
RECURSIVE Scan(_, _)
Scan(hull, sorted_points) ==
    IF sorted_points = <<>> THEN hull
    ELSE Scan(Append(PopWhile(hull, sorted_points[1]), sorted_points[1]),
              Tail(sorted_points))

\* a scan that returns early only below two points
convex_hull_scan_from_two(ps) ==
    IF Len(ps) < 2 THEN ps
    ELSE LET bottom_point == BottomPoint(Tail(ps), ps[1])
             sorted_points == sort_by_angle(FilterNot(ps, bottom_point), bottom_point)
         IN  Scan(<<bottom_point>>, sorted_points)

convex_hull_graham_scan(ps) ==
    IF Len(ps) < 3 THEN ps
    ELSE LET bottom_point == BottomPoint(Tail(ps), ps[1])
             sorted_points == sort_by_angle(FilterNot(ps, bottom_point), bottom_point)
         IN  Scan(<<bottom_point>>, sorted_points)

\* ---------------------------------------------------------------- segments
LineSegment(start, end) == [start |-> start, end |-> end]

direction(pi, pj, pk) == cross_product(pi, pj, pk)

Max(a, b) == IF a >= b THEN a ELSE b
Min(a, b) == IF a <= b THEN a ELSE b

\* a containment test that looks at x only
on_segment_x_only(pi, pj, pk) ==
    pj.x <= Max(pi.x, pk.x) /\ pj.x >= Min(pi.x, pk.x)

on_segment(pi, pj, pk) ==
    /\ pj.x <= Max(pi.x, pk.x) /\ pj.x >= Min(pi.x, pk.x)
    /\ pj.y <= Max(pi.y, pk.y) /\ pj.y >= Min(pi.y, pk.y)

\* an intersection test that takes the direction of self's start for both
\* of self's end points
intersects_d2_slip(self, other) ==
    LET d1 == direction(other.start, other.end, self.start)
        d2 == direction(other.start, other.end, self.start)
        d3 == direction(self.start, self.end, other.start)
        d4 == direction(self.start, self.end, other.end)
    IN  IF /\ ((d1 > 0 /\ d2 < 0) \/ (d1 < 0 /\ d2 > 0))
           /\ ((d3 > 0 /\ d4 < 0) \/ (d3 < 0 /\ d4 > 0))
        THEN TRUE
        ELSE \/ d1 = 0 /\ on_segment(other.start, self.start, other.end)
             \/ d2 = 0 /\ on_segment(other.start, self.end, other.end)
             \/ d3 = 0 /\ on_segment(self.start, other.start, self.end)
             \/ d4 = 0 /\ on_segment(self.start, other.end, self.end)

\* an intersection test that forgets the collinear check of self's end
intersects_no_end_check(self, other) ==
    LET d1 == direction(other.start, other.end, self.start)
        d2 == direction(other.start, other.end, self.end)
        d3 == direction(self.start, self.end, other.start)
        d4 == direction(self.start, self.end, other.end)
    IN  IF /\ ((d1 > 0 /\ d2 < 0) \/ (d1 < 0 /\ d2 > 0))
           /\ ((d3 > 0 /\ d4 < 0) \/ (d3 < 0 /\ d4 > 0))
        THEN TRUE
        ELSE \/ d1 = 0 /\ on_segment(other.start, self.start, other.end)
             \/ d3 = 0 /\ on_segment(self.start, other.start, self.end)
             \/ d4 = 0 /\ on_segment(self.start, other.end, self.end)

\* LineSegment::intersects
intersects(self, other) ==
    LET d1 == direction(other.start, other.end, self.start)
        d2 == direction(other.start, other.end, self.end)
        d3 == direction(self.start, self.end, other.start)
        d4 == direction(self.start, self.end, other.end)
    IN  IF /\ ((d1 > 0 /\ d2 < 0) \/ (d1 < 0 /\ d2 > 0))
           /\ ((d3 > 0 /\ d4 < 0) \/ (d3 < 0 /\ d4 > 0))
        THEN TRUE
        ELSE \/ d1 = 0 /\ on_segment(other.start, self.start, other.end)
             \/ d2 = 0 /\ on_segment(other.start, self.end, other.end)
             \/ d3 = 0 /\ on_segment(self.start, other.start, self.end)
             \/ d4 = 0 /\ on_segment(self.start, other.end, self.end)

\* find_intersecting_segments: the inner loop, j in i+1..segments.len().
\* Indices are the source's, counted from 0.
RECURSIVE FindInner(_, _, _, _)
FindInner(segs, i, j, intersections) ==
    IF j >= Len(segs) THEN intersections
    ELSE FindInner(segs, i, j + 1,
                   IF intersects(segs[i + 1], segs[j + 1])
                   THEN Append(intersections, <<i, j>>)
                   ELSE intersections)

\* a variant of the outer loop whose inner loop starts at j = i
RECURSIVE FindOuterFromSelf(_, _, _)
FindOuterFromSelf(segs, i, intersections) ==
    IF i >= Len(segs) THEN intersections
    ELSE FindOuterFromSelf(segs, i + 1, FindInner(segs, i, i, intersections))

\* find_intersecting_segments: the outer loop, i in 0..segments.len()
RECURSIVE FindOuter(_, _, _)
FindOuter(segs, i, intersections) ==
    IF i >= Len(segs) THEN intersections
    ELSE FindOuter(segs, i + 1, FindInner(segs, i, i + 1, intersections))

find_intersecting_segments(segs) == FindOuter(segs, 0, <<>>)

\* ---------------------------------------------------------------- k-d tree
KdNode(point, left, right, dimension) ==
    [point |-> point, left |-> left, right |-> right, dimension |-> dimension]

\* a build that splits the slice as it comes, without sorting it
RECURSIVE build_recursive_unsorted(_, _)
build_recursive_unsorted(ps, depth) ==
    LET mid == Len(ps) \div 2
        left == IF mid > 0
                THEN Some(build_recursive_unsorted(SubSeq(ps, 1, mid), depth + 1))
                ELSE None
        right == IF mid + 1 < Len(ps)
                 THEN Some(build_recursive_unsorted(SubSeq(ps, mid + 2, Len(ps)), depth + 1))
                 ELSE None
    IN  KdNode(ps[mid + 1], left, right, depth % 2)

\* a build that takes the first point of the sorted slice as the node
RECURSIVE build_recursive_first_as_node(_, _)
build_recursive_first_as_node(ps, depth) ==
    LET sorted == sort_by_coord(ps, depth % 2)
        right == IF 1 < Len(sorted)
                 THEN Some(build_recursive_first_as_node(Tail(sorted), depth + 1))
                 ELSE None
    IN  KdNode(sorted[1], None, right, depth % 2)

\* a build that splits on x at every depth
RECURSIVE build_recursive_x_only(_, _)
build_recursive_x_only(ps, depth) ==
    LET sorted == sort_by_coord(ps, 0)
        mid == Len(sorted) \div 2
        left == IF mid > 0
                THEN Some(build_recursive_x_only(SubSeq(sorted, 1, mid), depth + 1))
                ELSE None
        right == IF mid + 1 < Len(sorted)
                 THEN Some(build_recursive_x_only(SubSeq(sorted, mid + 2, Len(sorted)), depth + 1))
                 ELSE None
    IN  KdNode(sorted[mid + 1], left, right, 0)

\* a build that leaves the copies of the node's point out of its right subtree
RECURSIVE build_recursive_without_copies(_, _)
build_recursive_without_copies(ps, depth) ==
    LET dimension == depth % 2
        sorted == sort_by_coord(ps, dimension)
        mid == Len(sorted) \div 2
        point == sorted[mid + 1]
        after == FilterNot(SubSeq(sorted, mid + 2, Len(sorted)), point)
        left == IF mid > 0
                THEN Some(build_recursive_without_copies(SubSeq(sorted, 1, mid), depth + 1))
                ELSE None
        right == IF after # <<>>
                 THEN Some(build_recursive_without_copies(after, depth + 1))
                 ELSE None
    IN  KdNode(point, left, right, dimension)

\* KdTree::build_recursive; left and right are Option<Box<KdNode>>
RECURSIVE build_recursive(_, _)
build_recursive(ps, depth) ==
    LET dimension == depth % 2
        sorted == sort_by_coord(ps, dimension)
        mid == Len(sorted) \div 2
        point == sorted[mid + 1]
        left == IF mid > 0
                THEN Some(build_recursive(SubSeq(sorted, 1, mid), depth + 1))
                ELSE None
        right == IF mid + 1 < Len(sorted)
                 THEN Some(build_recursive(SubSeq(sorted, mid + 2, Len(sorted)), depth + 1))
                 ELSE None
    IN  KdNode(point, left, right, dimension)

\* KdTree::new: a tree without a root
KdTreeNew == None

\* KdTree::build: the tree is its root, an Option
build(ps) == IF ps # <<>> THEN Some(build_recursive(ps, 0)) ELSE None

\* a search that never crosses the splitting line
RECURSIVE nearest_neighbor_near_only(_, _, _)
nearest_neighbor_near_only(node, q, acc) ==
    LET distance == distance_squared_to(q, node.point)
        acc1 == IF distance < acc.best_distance
                THEN [best |-> node.point, best_distance |-> distance]
                ELSE acc
        query_coord == Coord(q, node.dimension)
        node_coord == Coord(node.point, node.dimension)
        near_child == IF query_coord < node_coord THEN node.left ELSE node.right
    IN  IF IsSome(near_child)
        THEN nearest_neighbor_near_only(Unwrap(near_child), q, acc1)
        ELSE acc1

\* KdTree::nearest_neighbor_recursive; acc holds *best and *best_distance
RECURSIVE nearest_neighbor_recursive(_, _, _)
nearest_neighbor_recursive(node, q, acc) ==
    LET distance == distance_squared_to(q, node.point)
        acc1 == IF distance < acc.best_distance
                THEN [best |-> node.point, best_distance |-> distance]
                ELSE acc
        query_coord == Coord(q, node.dimension)
        node_coord == Coord(node.point, node.dimension)
        near_child == IF query_coord < node_coord THEN node.left ELSE node.right
        far_child == IF query_coord < node_coord THEN node.right ELSE node.left
        acc2 == IF IsSome(near_child)
                THEN nearest_neighbor_recursive(Unwrap(near_child), q, acc1)
                ELSE acc1
        axis_distance == (query_coord - node_coord) * (query_coord - node_coord)
    IN  IF axis_distance < acc2.best_distance /\ IsSome(far_child)
        THEN nearest_neighbor_recursive(Unwrap(far_child), q, acc2)
        ELSE acc2

\* What nearest_neighbor_recursive does, step by step.  An event is
\*   "visit": the call on node has compared its point; child is the near child
\*   "far":   the test axis_distance < *best_distance held and the far child,
\*            child, is searched
\*   "skip":  the test failed and the far child, child, is left out
\* each with *best_distance at that moment.
Event(kind, node, child, best_distance) ==
    [kind |-> kind, node |-> node, child |-> child, best_distance |-> best_distance]

\* a search that leaves the far child out whenever there is a near child
RECURSIVE nearest_neighbor_events_near_first(_, _, _, _)
nearest_neighbor_events_near_first(node, q, acc, events) ==
    LET distance == distance_squared_to(q, node.point)
        acc1 == IF distance < acc.best_distance
                THEN [best |-> node.point, best_distance |-> distance]
                ELSE acc
        query_coord == Coord(q, node.dimension)
        node_coord == Coord(node.point, node.dimension)
        near_child == IF query_coord < node_coord THEN node.left ELSE node.right
        far_child == IF query_coord < node_coord THEN node.right ELSE node.left
        visited == Append(events, Event("visit", node, near_child, acc1.best_distance))
    IN  IF IsSome(near_child)
        THEN LET near == nearest_neighbor_events_near_first(Unwrap(near_child), q, acc1, visited)
             IN  [acc |-> near.acc,
                  events |-> Append(near.events,
                                    Event("skip", node, far_child, near.acc.best_distance))]
        ELSE IF IsSome(far_child)
        THEN nearest_neighbor_events_near_first(
                 Unwrap(far_child), q, acc1,
                 Append(visited, Event("far", node, far_child, acc1.best_distance)))
        ELSE [acc |-> acc1, events |-> visited]

\* nearest_neighbor_recursive with its events; the result holds *best and
\* *best_distance, as acc does, and the events so far
RECURSIVE nearest_neighbor_events(_, _, _, _)
nearest_neighbor_events(node, q, acc, events) ==
    LET distance == distance_squared_to(q, node.point)
        acc1 == IF distance < acc.best_distance
                THEN [best |-> node.point, best_distance |-> distance]
                ELSE acc
        query_coord == Coord(q, node.dimension)
        node_coord == Coord(node.point, node.dimension)
        near_child == IF query_coord < node_coord THEN node.left ELSE node.right
        far_child == IF query_coord < node_coord THEN node.right ELSE node.left
        visited == Append(events, Event("visit", node, near_child, acc1.best_distance))
        near == IF IsSome(near_child)
                THEN nearest_neighbor_events(Unwrap(near_child), q, acc1, visited)
                ELSE [acc |-> acc1, events |-> visited]
        axis_distance == (query_coord - node_coord) * (query_coord - node_coord)
    IN  IF axis_distance < near.acc.best_distance
        THEN IF IsSome(far_child)
             THEN nearest_neighbor_events(
                      Unwrap(far_child), q, near.acc,
                      Append(near.events,
                             Event("far", node, far_child, near.acc.best_distance)))
             ELSE near
        ELSE [acc |-> near.acc,
              events |-> Append(near.events,
                                Event("skip", node, far_child, near.acc.best_distance))]

\* a search that answers with the query itself when there is no root
nearest_neighbor_query_when_empty(self, q) ==
    IF IsSome(self)
    THEN LET root == Unwrap(self)
             acc == [best |-> root.point,
                     best_distance |-> distance_squared_to(q, root.point)]
         IN  Some(nearest_neighbor_recursive(root, q, acc).best)
    ELSE Some(q)

\* KdTree::nearest_neighbor
nearest_neighbor(self, q) ==
    IF IsSome(self)
    THEN LET root == Unwrap(self)
             acc == [best |-> root.point,
                     best_distance |-> distance_squared_to(q, root.point)]
         IN  Some(nearest_neighbor_recursive(root, q, acc).best)
    ELSE None

\* ---------------------------------------------------------------- index expressions
\* What each function indexes: the set of <<index, length>> of every slice
\* or vector index expression it evaluates, with index and length as in
\* the source (counted from 0; a range bound a..b on a slice of length n
\* is recorded as <<b, n + 1>>).  A usize expression below 0 is recorded
\* with its negative value.

\* for i in 0..n { for j in (i + 1)..n { ... s[i] ... s[j] ... } }
LoopIndexUses(n) ==
    UNION { {<<pr[1], n>>, <<pr[2], n>>} :
            pr \in { pr \in (0..(n - 1)) \X (0..(n - 1)) : pr[1] < pr[2] } }

\* closest_pair_brute_force: points[0], points[1], points[i], points[j]
BruteForceIndexUses(ps) ==
    LET n == Len(ps) IN
    IF n < 2 THEN {}
    ELSE {<<0, n>>, <<1, n>>} \cup LoopIndexUses(n)

\* the strip loop of closest_pair_rec: strip[i] and strip[j] are read only
\* after j < strip.len() held
StripIndexUses(strip) == LoopIndexUses(Len(strip))

\* closest_pair_rec and the calls below it: points_x[mid], split_at(mid),
\* the base case and the strip
RecIndexUses(points_x, points_y) ==
    UNION { LET n == Len(call.points_x)
                mid == n \div 2
            IN  IF n <= 3 THEN BruteForceIndexUses(call.points_x)
                ELSE {<<mid, n>>, <<mid, n + 1>>}
                     \cup StripIndexUses(
                              Strip(call.points_y, call.points_x[mid + 1].x,
                                    Unwrap(Combine(
                                        closest_pair_rec(SubSeq(call.points_x, 1, mid),
                                                         LeftY(call.points_y, call.points_x[mid + 1].x)),
                                        closest_pair_rec(SubSeq(call.points_x, mid + 1, n),
                                                         RightY(call.points_y, call.points_x[mid + 1].x)))).distance))
          : call \in RecCalls(points_x, points_y) }

DivideConquerIndexUses(ps) ==
    IF Len(ps) < 2 THEN {}
    ELSE RecIndexUses(sort_by_coord(ps, 0), sort_by_coord(ps, 1))

\* the while loop of the scan: hull[hull.len()-2], hull[hull.len()-1]
RECURSIVE PopIndexUses(_, _)
PopIndexUses(hull, point) ==
    IF Len(hull) > 1
    THEN {<<Len(hull) - 2, Len(hull)>>, <<Len(hull) - 1, Len(hull)>>}
         \cup (IF cross_product(hull[Len(hull) - 1], hull[Len(hull)], point) <= 0
                THEN PopIndexUses(SubSeq(hull, 1, Len(hull) - 1), point)
                ELSE {})
    ELSE {}

RECURSIVE ScanIndexUses(_, _)
ScanIndexUses(hull, sorted_points) ==
    IF sorted_points = <<>> THEN {}
    ELSE PopIndexUses(hull, sorted_points[1])
         \cup ScanIndexUses(Append(PopWhile(hull, sorted_points[1]), sorted_points[1]),
                            Tail(sorted_points))

\* convex_hull_graham_scan: points[0] and the scan
HullIndexUses(ps) ==
    IF Len(ps) < 3 THEN {}
    ELSE LET bottom_point == BottomPoint(Tail(ps), ps[1])
             sorted_points == sort_by_angle(FilterNot(ps, bottom_point), bottom_point)
         IN  {<<0, Len(ps)>>} \cup ScanIndexUses(<<bottom_point>>, sorted_points)

\* find_intersecting_segments: segments[i], segments[j]
FindIndexUses(segs) == LoopIndexUses(Len(segs))

\* a build that recurses into both halves whatever their length
RECURSIVE BuildIndexUsesUnguarded(_)
BuildIndexUsesUnguarded(n) ==
    LET mid == n \div 2 IN
    {<<mid, n>>}
    \cup (IF n > 0 THEN {<<mid, n + 1>>} \cup BuildIndexUsesUnguarded(mid) ELSE {})
    \cup (IF n > 0 THEN {<<mid + 1, n + 1>>} \cup BuildIndexUsesUnguarded(n - mid - 1) ELSE {})

\* KdTree::build_recursive on a vector of n points: points[mid],
\* points[..mid] if mid > 0, points[mid + 1..] if mid + 1 < n
RECURSIVE BuildRecursiveIndexUses(_)
BuildRecursiveIndexUses(n) ==
    LET mid == n \div 2 IN
    {<<mid, n>>}
    \cup (IF mid > 0 THEN {<<mid, n + 1>>} \cup BuildRecursiveIndexUses(mid) ELSE {})
    \cup (IF mid + 1 < n THEN {<<mid + 1, n + 1>>} \cup BuildRecursiveIndexUses(n - mid - 1) ELSE {})

\* KdTree::build
BuildIndexUses(ps) == IF ps # <<>> THEN BuildRecursiveIndexUses(Len(ps)) ELSE {}

\* ---------------------------------------------------------------- sorting.rs
\* An array is a sequence; i is an index of the source, counted from 0.
At(a, i) == a[i + 1]

Put(a, i, v) == [a EXCEPT ![i + 1] = v]

\* arr.swap(i, j)
Swap(a, i, j) == [a EXCEPT ![i + 1] = a[j + 1], ![j + 1] = a[i + 1]]

\* merge: the three while loops, on the copies left_arr and right_arr
RECURSIVE MergeLoop(_, _, _, _, _, _)
MergeLoop(a, left_arr, right_arr, i, j, k) ==
    IF i < Len(left_arr) /\ j < Len(right_arr)
    THEN IF At(left_arr, i) <= At(right_arr, j)
         THEN MergeLoop(Put(a, k, At(left_arr, i)), left_arr, right_arr, i + 1, j, k + 1)
         ELSE MergeLoop(Put(a, k, At(right_arr, j)), left_arr, right_arr, i, j + 1, k + 1)
    ELSE IF i < Len(left_arr)
    THEN MergeLoop(Put(a, k, At(left_arr, i)), left_arr, right_arr, i + 1, j, k + 1)
    ELSE IF j < Len(right_arr)
    THEN MergeLoop(Put(a, k, At(right_arr, j)), left_arr, right_arr, i, j + 1, k + 1)
    ELSE a

merge(a, left, mid, right) ==
    MergeLoop(a, SubSeq(a, left + 1, mid + 1), SubSeq(a, mid + 2, right + 1), 0, 0, left)

RECURSIVE merge_sort_recursive(_, _, _)
merge_sort_recursive(a, left, right) ==
    IF left < right
    THEN LET mid == left + (right - left) \div 2
         IN  merge(merge_sort_recursive(merge_sort_recursive(a, left, mid), mid + 1, right),
                   left, mid, right)
    ELSE a

merge_sort(a) == IF Len(a) <= 1 THEN a ELSE merge_sort_recursive(a, 0, Len(a) - 1)

\* partition: for j in low..high, then the final swap; returns the array
\* and the pivot index
RECURSIVE PartitionLoop(_, _, _, _, _)
PartitionLoop(a, pivot, i, j, high) ==
    IF j >= high THEN [arr |-> Swap(a, i, high), pivot_index |-> i]
    ELSE IF At(a, j) <= pivot
    THEN PartitionLoop(Swap(a, i, j), pivot, i + 1, j + 1, high)
    ELSE PartitionLoop(a, pivot, i, j + 1, high)

partition(a, low, high) == PartitionLoop(a, At(a, high), low, low, high)

RECURSIVE quick_sort_recursive(_, _, _)
quick_sort_recursive(a, low, high) ==
    IF low < high
    THEN LET p == partition(a, low, high)
             a1 == IF p.pivot_index > 0
                   THEN quick_sort_recursive(p.arr, low, p.pivot_index - 1)
                   ELSE p.arr
         IN  quick_sort_recursive(a1, p.pivot_index + 1, high)
    ELSE a

quick_sort(a) == IF Len(a) <= 1 THEN a ELSE quick_sort_recursive(a, 0, Len(a) - 1)

\* a heapify that never looks at the right child
RECURSIVE heapify_left_only(_, _, _)
heapify_left_only(a, heap_size, root) ==
    LET left == 2 * root + 1
        largest == IF left < heap_size /\ At(a, left) > At(a, root) THEN left ELSE root
    IN  IF largest # root
        THEN heapify_left_only(Swap(a, root, largest), heap_size, largest)
        ELSE a

RECURSIVE heapify(_, _, _)
heapify(a, heap_size, root) ==
    LET left == 2 * root + 1
        right == 2 * root + 2
        largest1 == IF left < heap_size /\ At(a, left) > At(a, root) THEN left ELSE root
        largest == IF right < heap_size /\ At(a, right) > At(a, largest1) THEN right ELSE largest1
    IN  IF largest # root
        THEN heapify(Swap(a, root, largest), heap_size, largest)
        ELSE a

\* for i in (0..len / 2).rev() { heapify(arr, len, i); }, from i down
RECURSIVE BuildHeap(_, _)
BuildHeap(a, i) ==
    IF i < 0 THEN a ELSE BuildHeap(heapify(a, Len(a), i), i - 1)

\* for i in (1..len).rev() { arr.swap(0, i); heapify(arr, i, 0); }, from i down
RECURSIVE ExtractMax(_, _)
ExtractMax(a, i) ==
    IF i < 1 THEN a ELSE ExtractMax(heapify(Swap(a, 0, i), i, 0), i - 1)

heap_sort(a) == ExtractMax(BuildHeap(a, Len(a) \div 2 - 1), Len(a) - 1)

\* insertion_sort_range: the while loop that shifts the larger elements up
RECURSIVE ShiftUp(_, _, _, _)
ShiftUp(a, key, j, low) ==
    IF j > low /\ At(a, j - 1) > key
    THEN ShiftUp(Put(a, j, At(a, j - 1)), key, j - 1, low)
    ELSE Put(a, j, key)

\* for i in (low + 1)..=high, from i on
RECURSIVE InsertionLoop(_, _, _, _)
InsertionLoop(a, i, low, high) ==
    IF i > high THEN a
    ELSE InsertionLoop(ShiftUp(a, At(a, i), i, low), i + 1, low, high)

insertion_sort_range(a, low, high) == InsertionLoop(a, low + 1, low, high)

partition_median_of_three(a, low, high) ==
    LET mid == low + (high - low) \div 2
        a1 == IF At(a, mid) < At(a, low) THEN Swap(a, low, mid) ELSE a
        a2 == IF At(a1, high) < At(a1, low) THEN Swap(a1, low, high) ELSE a1
        a3 == IF At(a2, high) < At(a2, mid) THEN Swap(a2, mid, high) ELSE a2
    IN  partition(Swap(a3, mid, high), low, high)

\* below this many elements a range is sorted by insertion
InsertionRange == 10

RECURSIVE quick_sort_optimized_recursive(_, _, _)
quick_sort_optimized_recursive(a, low, high) ==
    IF low < high
    THEN IF high - low < InsertionRange
         THEN insertion_sort_range(a, low, high)
         ELSE LET p == partition_median_of_three(a, low, high)
                  a1 == IF p.pivot_index > 0
                        THEN quick_sort_optimized_recursive(p.arr, low, p.pivot_index - 1)
                        ELSE p.arr
              IN  quick_sort_optimized_recursive(a1, p.pivot_index + 1, high)
    ELSE a

quick_sort_optimized(a) ==
    IF Len(a) <= 1 THEN a ELSE quick_sort_optimized_recursive(a, 0, Len(a) - 1)

\* ---- radix_sort, on i32
\* The values are i32.  Every sum, difference and product below is formed
\* so that no intermediate value leaves the i32 range; an operation that
\* overflows in the source is recorded, and then either panics (a build
\* with overflow checks, the debug profile) or wraps modulo 2^32 (a build
\* without them, the release profile).
I32_MAX == 2147483647

I32_MIN == 0 - I32_MAX - 1

Range(a) == { a[k] : k \in 1..Len(a) }

\* arr.iter().min(), arr.iter().max()
MinOf(a) == CHOOSE v \in Range(a) : \A w \in Range(a) : v <= w

MaxOf(a) == CHOOSE v \in Range(a) : \A w \in Range(a) : v >= w

\* a + b does not fit
AddOverflows(a, b) == (b > 0 /\ a > I32_MAX - b) \/ (b < 0 /\ a < I32_MIN - b)

\* a + b modulo 2^32
WrapAdd(a, b) ==
    IF b > 0 /\ a > I32_MAX - b THEN (a - I32_MAX - 1) + (b - I32_MAX - 1)
    ELSE IF b < 0 /\ a < I32_MIN - b THEN (a + I32_MAX + 1) + (b + I32_MAX + 1)
    ELSE a + b

\* a - b does not fit
SubOverflows(a, b) == (b > 0 /\ a < I32_MIN + b) \/ (b < 0 /\ a > I32_MAX + b)

\* a - b modulo 2^32
WrapSub(a, b) ==
    IF b > 0 /\ a < I32_MIN + b THEN (a + I32_MAX + 1) + (I32_MAX - b + 1)
    ELSE IF b < 0 /\ a > I32_MAX + b THEN (a + I32_MIN) + (I32_MIN - b)
    ELSE a - b

\* -a modulo 2^32
WrapNeg(a) == IF a = I32_MIN THEN I32_MIN ELSE 0 - a

\* the radix: ten digits, ten counters
Radix == 10

\* e * n modulo 2^32, as n wrapping additions
RECURSIVE WrapTimes(_, _)
WrapTimes(e, n) == IF n = 0 THEN 0 ELSE WrapAdd(WrapTimes(e, n - 1), e)

\* a / b of the source (rounding toward zero) for b > 0
TruncDiv(a, b) == IF a >= 0 \/ a % b = 0 THEN a \div b ELSE (a \div b) + 1

\* a % b of the source (sign of a) for b > 0
TruncRem(a, b) == IF a >= 0 \/ a % b = 0 THEN a % b ELSE (a % b) - b

\* a / b > 0 in the source, b # 0
QuotientPositive(a, b) == (a > 0 /\ b > 0 /\ a >= b) \/ (a < 0 /\ b < 0 /\ a <= b)

\* (val / exp) % 10, before the cast to usize
Digit(val, exp) == TruncRem(TruncDiv(val, exp), Radix)

\* for &val in arr.iter() { count[digit] += 1; }, from element k on
RECURSIVE CountLoop(_, _, _, _)
CountLoop(a, exp, k, count) ==
    IF k > Len(a) THEN count
    ELSE CountLoop(a, exp, k + 1,
                   [count EXCEPT ![Digit(a[k], exp)] = @ + 1])

\* for i in 1..10 { count[i] += count[i - 1]; }
RECURSIVE PrefixLoop(_, _)
PrefixLoop(count, i) ==
    IF i >= Radix THEN count
    ELSE PrefixLoop([count EXCEPT ![i] = @ + count[i - 1]], i + 1)

\* for &val in arr.iter().rev() { count[digit] -= 1; output[count[digit]] = val; }
RECURSIVE OutputLoop(_, _, _, _, _)
OutputLoop(a, exp, k, count, output) ==
    IF k < 1 THEN output
    ELSE LET digit == Digit(a[k], exp)
             count1 == [count EXCEPT ![digit] = @ - 1]
         IN  OutputLoop(a, exp, k - 1, count1, Put(output, count1[digit], a[k]))

\* counting_sort_by_digit; a negative digit, cast to usize, is an index
\* far beyond count and the indexing panics
counting_sort_by_digit(a, exp) ==
    IF \E k \in 1..Len(a) : Digit(a[k], exp) < 0
    THEN [arr |-> a, panicked |-> TRUE]
    ELSE LET count == PrefixLoop(CountLoop(a, exp, 1, [d \in 0..(Radix - 1) |-> 0]), 1)
         IN  [arr |-> OutputLoop(a, exp, Len(a), count, [k \in 1..Len(a) |-> 0]),
              panicked |-> FALSE]

\* the outcome of a call: the array as it is left, whether an i32
\* operation overflowed, whether the call panicked
Outcome(a, overflowed, panicked) ==
    [arr |-> a, overflowed |-> overflowed, panicked |-> panicked]

\* for val in arr.iter_mut() { *val += offset; }, from element k on
RECURSIVE AddLoop(_, _, _, _, _)
AddLoop(a, k, offset, overflow_checks, overflowed) ==
    IF k > Len(a) THEN Outcome(a, overflowed, FALSE)
    ELSE IF AddOverflows(a[k], offset) /\ overflow_checks THEN Outcome(a, TRUE, TRUE)
    ELSE AddLoop([a EXCEPT ![k] = WrapAdd(a[k], offset)], k + 1, offset, overflow_checks,
                 overflowed \/ AddOverflows(a[k], offset))

\* while max_val / exp > 0 { counting_sort_by_digit(arr, exp); exp *= 10; }
\* The loop body runs with exp > 0 only: the least element was shifted to
\* 0, so max_val >= 0, and a quotient by a negative exp is not positive.
RECURSIVE DigitLoop(_, _, _, _, _)
DigitLoop(a, max_val, exp, overflow_checks, overflowed) ==
    IF exp = 0 THEN Outcome(a, overflowed, TRUE)
    ELSE IF ~QuotientPositive(max_val, exp) THEN Outcome(a, overflowed, FALSE)
    ELSE LET sorted == counting_sort_by_digit(a, exp)
             mul_overflows == exp > I32_MAX \div Radix
         IN  IF sorted.panicked THEN Outcome(a, overflowed, TRUE)
             ELSE IF mul_overflows /\ overflow_checks THEN Outcome(sorted.arr, TRUE, TRUE)
             ELSE DigitLoop(sorted.arr, max_val, WrapTimes(exp, Radix), overflow_checks,
                            overflowed \/ mul_overflows)

\* for val in arr.iter_mut() { *val -= offset; }, from element k on
RECURSIVE SubLoop(_, _, _, _, _)
SubLoop(a, k, offset, overflow_checks, overflowed) ==
    IF k > Len(a) THEN Outcome(a, overflowed, FALSE)
    ELSE IF SubOverflows(a[k], offset) /\ overflow_checks THEN Outcome(a, TRUE, TRUE)
    ELSE SubLoop([a EXCEPT ![k] = WrapSub(a[k], offset)], k + 1, offset, overflow_checks,
                 overflowed \/ SubOverflows(a[k], offset))

\* radix_sort, in a build with or without overflow checks
radix_sort(a, overflow_checks) ==
    IF a = <<>> THEN Outcome(a, FALSE, FALSE)
    ELSE LET min_val == MinOf(a)
             neg_overflows == min_val = I32_MIN
         IN  IF neg_overflows /\ overflow_checks THEN Outcome(a, TRUE, TRUE)
             ELSE LET offset == IF min_val < 0 THEN WrapNeg(min_val) ELSE 0
                      shifted == AddLoop(a, 1, offset, overflow_checks, neg_overflows)
                  IN  IF shifted.panicked THEN shifted
                      ELSE LET sorted == DigitLoop(shifted.arr, MaxOf(shifted.arr), 1,
                                                   overflow_checks, shifted.overflowed)
                           IN  IF sorted.panicked THEN sorted
                               ELSE SubLoop(sorted.arr, 1, offset, overflow_checks,
                                            sorted.overflowed)

\* ---------------------------------------------------------------- state machine
Origin == Point(0, 0)

Init ==
    /\ points = <<>>
    /\ tree = None
    /\ query = Origin
    /\ seg_a = [start |-> Origin, end |-> Origin]
    /\ seg_b = [start |-> Origin, end |-> Origin]
    /\ segments = <<>>
    /\ arr = <<>>
    /\ op = "input"
    /\ result = None
    /\ calls = {}

\* p <= q in the order (x, then y)
LexLe(p, q) == p.x < q.x \/ (p.x = q.x /\ p.y <= q.y)

IsLexSorted(s) == \A i \in 1..(Len(s) - 1) : LexLe(s[i], s[i + 1])

\* The caller builds the input slice: every sequence of up to maxPoints
\* points of the grid ...
PushPointOf(grid, maxPoints) ==
    /\ op = "input"
    /\ Len(points) < maxPoints
    /\ \E p \in grid : points' = Append(points, p)
    /\ UNCHANGED <<tree, query, seg_a, seg_b, segments, arr, op, result, calls>>

\* ... and the longer ones, up to maxSorted points, given in (x, y) order.
PushSortedPointOf(grid, maxPoints, maxSorted) ==
    /\ op = "input"
    /\ Len(points) >= maxPoints
    /\ Len(points) < maxSorted
    /\ IsLexSorted(points)
    /\ \E p \in grid : LexLe(points[Len(points)], p) /\ points' = Append(points, p)
    /\ UNCHANGED <<tree, query, seg_a, seg_b, segments, arr, op, result, calls>>

\* ---- closest pair
CpPushPoint == PushPointOf(CpGrid, CpMaxPoints)

CpPushSortedPoint == PushSortedPointOf(CpGrid, CpMaxPoints, CpMaxSorted)

\* scenario 1 of the specification's testable properties, the input of
\* test_closest_pair_brute_force and test_closest_pair_divide_conquer
Scenario1 == <<Point(0, 0), Point(1, 1), Point(5, 5), Point(2, 2)>>

CpLoadScenario ==
    /\ op = "input"
    /\ points = <<>>
    /\ points' = Scenario1
    /\ UNCHANGED <<tree, query, seg_a, seg_b, segments, arr, op, result, calls>>

CallBruteForce ==
    /\ op = "input"
    /\ op' = "closest_pair_brute_force"
    /\ result' = closest_pair_brute_force(points)
    /\ UNCHANGED <<points, tree, query, seg_a, seg_b, segments, arr, calls>>

CallDivideConquer ==
    /\ op = "input"
    /\ op' = "closest_pair_divide_conquer"
    /\ result' = closest_pair_divide_conquer(points)
    /\ UNCHANGED <<points, tree, query, seg_a, seg_b, segments, arr, calls>>

NextClosestPair ==
    \/ CpPushPoint
    \/ CpPushSortedPoint
    \/ CpLoadScenario
    \/ CallBruteForce
    \/ CallDivideConquer

SpecClosestPair == Init /\ [][NextClosestPair]_vars

\* closest_pair_brute_force alone, on the same inputs
NextBruteForce ==
    \/ CpPushPoint
    \/ CpPushSortedPoint
    \/ CpLoadScenario
    \/ CallBruteForce

SpecBruteForce == Init /\ [][NextBruteForce]_vars

\* closest_pair_divide_conquer alone, on the same inputs
NextRecursion ==
    \/ CpPushPoint
    \/ CpPushSortedPoint
    \/ CallDivideConquer

SpecRecursion == Init /\ [][NextRecursion]_vars

\* closest_pair_divide_conquer on longer inputs in (x, y) order
StripPushSortedPoint == PushSortedPointOf(CpGrid, CpMaxPoints, StripMaxSorted)

NextStripScan ==
    \/ CpPushPoint
    \/ StripPushSortedPoint
    \/ CallDivideConquer

SpecStripScan == Init /\ [][NextStripScan]_vars

\* ---- convex hull
HullPushPoint == PushPointOf(HullGrid, HullMaxPoints)

HullPushSortedPoint == PushSortedPointOf(HullGrid, HullMaxPoints, HullMaxSorted)

\* scenario 2 of the specification's testable properties
Square == <<Point(0, 0), Point(0, 1), Point(1, 1), Point(1, 0)>>

HullLoadSquare ==
    /\ op = "input"
    /\ points = <<>>
    /\ points' = Square
    /\ UNCHANGED <<tree, query, seg_a, seg_b, segments, arr, op, result, calls>>

CallGrahamScan ==
    /\ op = "input"
    /\ op' = "convex_hull_graham_scan"
    /\ result' = convex_hull_graham_scan(points)
    /\ UNCHANGED <<points, tree, query, seg_a, seg_b, segments, arr, calls>>

NextHull ==
    \/ HullPushPoint
    \/ HullPushSortedPoint
    \/ HullLoadSquare
    \/ CallGrahamScan

SpecHull == Init /\ [][NextHull]_vars

\* ---- segments
Segments == {LineSegment(s, e) : s \in SegGrid, e \in SegGrid}

InitSegments ==
    /\ points = <<>>
    /\ tree = None
    /\ query = Origin
    /\ seg_a \in Segments
    /\ seg_b \in Segments
    /\ segments = <<>>
    /\ arr = <<>>
    /\ op = "input"
    /\ result = None
    /\ calls = {}

CallIntersects ==
    /\ op = "input"
    /\ op' = "intersects"
    /\ result' = Some(intersects(seg_a, seg_b))
    /\ UNCHANGED <<points, tree, query, seg_a, seg_b, segments, arr, calls>>

NextSegments == CallIntersects

SpecSegments == InitSegments /\ [][NextSegments]_vars

\* ---- find_intersecting_segments
\* The input slice: segments of a small grid, each written with its
\* endpoints in (x, y) order.  Every order of up to FisMaxSegments
\* segments, and longer slices up to FisMaxSorted that are sorted.
FisGrid == GridOf(FisMaxCoord, FisMaxCoord)

FisSegments == { LineSegment(a, b) : a \in FisGrid, b \in FisGrid } \cap
               { seg \in [start : FisGrid, end : FisGrid] : LexLe(seg.start, seg.end) }

SegLe(s, t) ==
    \/ s.start # t.start /\ LexLe(s.start, t.start)
    \/ s.start = t.start /\ LexLe(s.end, t.end)

IsSegSorted(s) == \A k \in 1..(Len(s) - 1) : SegLe(s[k], s[k + 1])

FisPushSegment ==
    /\ op = "input"
    /\ Len(segments) < FisMaxSegments
    /\ \E seg \in FisSegments : segments' = Append(segments, seg)
    /\ UNCHANGED <<points, tree, query, seg_a, seg_b, arr, op, result, calls>>

FisPushSortedSegment ==
    /\ op = "input"
    /\ Len(segments) >= FisMaxSegments
    /\ Len(segments) < FisMaxSorted
    /\ IsSegSorted(segments)
    /\ \E seg \in FisSegments :
          /\ SegLe(segments[Len(segments)], seg)
          /\ segments' = Append(segments, seg)
    /\ UNCHANGED <<points, tree, query, seg_a, seg_b, arr, op, result, calls>>

CallFindIntersecting ==
    /\ op = "input"
    /\ op' = "find_intersecting_segments"
    /\ result' = find_intersecting_segments(segments)
    /\ UNCHANGED <<points, tree, query, seg_a, seg_b, segments, arr, calls>>

NextFindIntersecting ==
    \/ FisPushSegment
    \/ FisPushSortedSegment
    \/ CallFindIntersecting

SpecFindIntersecting == Init /\ [][NextFindIntersecting]_vars

\* ---- k-d tree
KdPushPoint == PushPointOf(KdGrid, KdMaxPoints)

KdPushSortedPoint == PushSortedPointOf(KdGrid, KdMaxPoints, KdMaxSorted)

\* KdTree::build(&points)
CallBuild ==
    /\ op = "input"
    /\ op' = "build"
    /\ tree' = build(points)
    /\ UNCHANGED <<points, query, seg_a, seg_b, segments, arr, result, calls>>

\* KdTree::new()
CallNew ==
    /\ op = "input"
    /\ points = <<>>
    /\ op' = "new"
    /\ tree' = KdTreeNew
    /\ UNCHANGED <<points, query, seg_a, seg_b, segments, arr, result, calls>>

\* tree.nearest_neighbor(&query); the tree is read-only once built
CallNearestNeighbor ==
    /\ op \in {"build", "new"}
    /\ op' = "nearest_neighbor"
    /\ \E q \in KdGrid :
           /\ query' = q
           /\ result' = nearest_neighbor(tree, q)
    /\ UNCHANGED <<points, tree, seg_a, seg_b, segments, arr, calls>>

NextKdTree ==
    \/ KdPushPoint
    \/ KdPushSortedPoint
    \/ CallBuild
    \/ CallNew
    \/ CallNearestNeighbor

SpecKdTree == Init /\ [][NextKdTree]_vars

\* queries on built trees only
NextNearestNeighbor ==
    \/ KdPushPoint
    \/ KdPushSortedPoint
    \/ CallBuild
    \/ CallNearestNeighbor

SpecNearestNeighbor == Init /\ [][NextNearestNeighbor]_vars

\* ---- all six functions on one input
\* Points of a 2 x 2 grid, so that equal points and equal coordinates are
\* the rule, or a slice of segments; then any one of the functions.
NfGrid == GridOf(NfMaxCoord, NfMaxCoord)

NfPushPoint == segments = <<>> /\ PushPointOf(NfGrid, NfMaxPoints)

NfPushSortedPoint == segments = <<>> /\ PushSortedPointOf(NfGrid, NfMaxPoints, NfMaxSorted)

NfPushSegment == points = <<>> /\ FisPushSegment

\* tree.nearest_neighbor(&query) with a query of the same grid
NfCallNearestNeighbor ==
    /\ op = "build"
    /\ op' = "nearest_neighbor"
    /\ \E q \in NfGrid :
           /\ query' = q
           /\ result' = nearest_neighbor(tree, q)
    /\ UNCHANGED <<points, tree, seg_a, seg_b, segments, arr, calls>>

NextNoFailure ==
    \/ NfPushPoint
    \/ NfPushSortedPoint
    \/ NfPushSegment
    \/ CallBruteForce
    \/ CallDivideConquer
    \/ CallGrahamScan
    \/ CallFindIntersecting
    \/ CallBuild
    \/ NfCallNearestNeighbor

SpecNoFailure == Init /\ [][NextNoFailure]_vars

\* ---- the comparison sorts
SortValues == 0..SortMaxVal

IsAscending(a) == \A k \in 1..(Len(a) - 1) : a[k] <= a[k + 1]

IsDescending(a) == \A k \in 1..(Len(a) - 1) : a[k] >= a[k + 1]

SortPushValue ==
    /\ op = "input"
    /\ Len(arr) < SortMaxLen
    /\ \E v \in SortValues : arr' = Append(arr, v)
    /\ UNCHANGED <<points, tree, query, seg_a, seg_b, segments, op, result, calls>>

\* a longer array: what follows the first SortMaxLen elements is a run
\* that never falls or never rises
SortPushRun ==
    /\ op = "input"
    /\ Len(arr) >= SortMaxLen
    /\ Len(arr) < SortMaxLong
    /\ \E v \in SortValues :
          LET run == SubSeq(arr, SortMaxLen + 1, Len(arr)) \o <<v>>
          IN  /\ IsAscending(run) \/ IsDescending(run)
              /\ arr' = Append(arr, v)
    /\ UNCHANGED <<points, tree, query, seg_a, seg_b, segments, op, result, calls>>

\* the array of the unit tests
TestArray == <<64, 34, 25, 12, 22, 11, 90>>

SortLoadTestArray ==
    /\ op = "input"
    /\ arr = <<>>
    /\ arr' = TestArray
    /\ UNCHANGED <<points, tree, query, seg_a, seg_b, segments, op, result, calls>>

\* each sort works in place: arr is the array before the call, result the
\* array after it
CallMergeSort ==
    /\ op = "input"
    /\ op' = "merge_sort"
    /\ result' = merge_sort(arr)
    /\ UNCHANGED <<points, tree, query, seg_a, seg_b, segments, arr, calls>>

CallQuickSort ==
    /\ op = "input"
    /\ op' = "quick_sort"
    /\ result' = quick_sort(arr)
    /\ UNCHANGED <<points, tree, query, seg_a, seg_b, segments, arr, calls>>

CallHeapSort ==
    /\ op = "input"
    /\ op' = "heap_sort"
    /\ result' = heap_sort(arr)
    /\ UNCHANGED <<points, tree, query, seg_a, seg_b, segments, arr, calls>>

CallQuickSortOptimized ==
    /\ op = "input"
    /\ op' = "quick_sort_optimized"
    /\ result' = quick_sort_optimized(arr)
    /\ UNCHANGED <<points, tree, query, seg_a, seg_b, segments, arr, calls>>

NextSorting ==
    \/ SortPushValue
    \/ SortPushRun
    \/ SortLoadTestArray
    \/ CallMergeSort
    \/ CallQuickSort
    \/ CallHeapSort
    \/ CallQuickSortOptimized

SpecSorting == Init /\ [][NextSorting]_vars

\* ---- parallel_merge_sort and parallel_quick_sort
\* A call of parallel_merge_sort_recursive that is in progress.  path names
\* it: <<>> is the call made by parallel_merge_sort, Append(path, 0) and
\* Append(path, 1) are the first and the second call its caller makes.  The
\* slice it was given is the part base .. base + len - 1 of the array; left
\* and right are indices of that slice.  touched is the set of the indices of
\* the array that the call, and the calls it has waited for, have read or
\* written.
MergeCall(path, base, len, left, right, depth) ==
    [path |-> path, base |-> base, len |-> len, left |-> left, right |-> right,
     depth |-> depth, pc |-> "call", touched |-> {}]

\* A call of parallel_quick_sort_recursive; every call is given the whole
\* array, left and right hold low and high.
QuickCall(path, low, high, depth) ==
    [path |-> path, left |-> low, right |-> high, depth |-> depth,
     pivot_index |-> 0, pc |-> "call", touched |-> {}]

\* the calls that c made and that have not been taken back yet
Children(c, cs) == {d \in cs : Len(d.path) = Len(c.path) + 1
                              /\ SubSeq(d.path, 1, Len(c.path)) = c.path}

\* a join that returns as soon as its first closure has
JoinReturnedAfterFirst(c, cs) ==
    \A d \in Children(c, cs) : d.path[Len(d.path)] = 0 => d.pc = "done"

\* rayon::join returns when both closures have returned; a plain call
\* returns when the callee has
JoinReturned(c, cs) == \A d \in Children(c, cs) : d.pc = "done"

TouchedBy(ds) == UNION {d.touched : d \in ds}

\* c returns: the call of the public function leaves, any other call stays
\* until its caller goes on
Finish(c, cs, touched) ==
    IF c.path = <<>> THEN cs \ {c}
    ELSE (cs \ {c}) \cup {[c EXCEPT !.pc = "done", !.touched = touched]}

\* the slice of call c, and the array with that slice replaced
Slice(a, c) == SubSeq(a, c.base + 1, c.base + c.len)

WriteSlice(a, c, local) ==
    [i \in 1..Len(a) |->
        IF i > c.base /\ i <= c.base + c.len THEN local[i - c.base] ELSE a[i]]

Mid(c) == c.left + (c.right - c.left) \div 2

\* right - left > 1000 && depth < 4, with the two numbers scaled down
UseJoin(c) == c.right - c.left > ParallelRange /\ c.depth < ParallelDepth

\* parallel_merge_sort_recursive up to the recursive calls: nothing to do,
\* or the two closures handed to rayon::join on the halves of split_at_mut,
\* or the first of the two plain calls
PmsEnter ==
    /\ op = "parallel_merge_sort"
    /\ \E c \in calls :
          /\ c.pc = "call"
          /\ IF ~(c.left < c.right) THEN calls' = Finish(c, calls, c.touched)
             ELSE IF UseJoin(c)
             THEN calls' = (calls \ {c}) \cup
                     {[c EXCEPT !.pc = "join"],
                      MergeCall(Append(c.path, 0), c.base + c.left,
                                Mid(c) + 1 - c.left, c.left, Mid(c), c.depth + 1),
                      MergeCall(Append(c.path, 1), c.base + Mid(c) + 1,
                                c.right - Mid(c), 0, c.right - Mid(c) - 1, c.depth + 1)}
             ELSE calls' = (calls \ {c}) \cup
                     {[c EXCEPT !.pc = "first"],
                      MergeCall(Append(c.path, 0), c.base, c.len,
                                c.left, Mid(c), c.depth + 1)}
    /\ UNCHANGED <<points, tree, query, seg_a, seg_b, segments, arr, op, result>>

\* the first plain call has returned: the second one
PmsSecond ==
    /\ op = "parallel_merge_sort"
    /\ \E c \in calls :
          /\ c.pc = "first"
          /\ JoinReturned(c, calls)
          /\ calls' = (calls \ ({c} \cup Children(c, calls))) \cup
                  {[c EXCEPT !.pc = "second",
                             !.touched = @ \cup TouchedBy(Children(c, calls))],
                   MergeCall(Append(c.path, 1), c.base, c.len,
                             Mid(c) + 1, c.right, c.depth + 1)}
    /\ UNCHANGED <<points, tree, query, seg_a, seg_b, segments, arr, op, result>>

\* rayon::join, or the second plain call, has returned
PmsJoin ==
    /\ op = "parallel_merge_sort"
    /\ \E c \in calls :
          /\ c.pc \in {"join", "second"}
          /\ JoinReturned(c, calls)
          /\ calls' = (calls \ ({c} \cup Children(c, calls))) \cup
                  {[c EXCEPT !.pc = "merge",
                             !.touched = @ \cup TouchedBy(Children(c, calls))]}
    /\ UNCHANGED <<points, tree, query, seg_a, seg_b, segments, arr, op, result>>

\* merge(arr, left, mid, right), on the slice of the call
PmsMerge ==
    /\ op = "parallel_merge_sort"
    /\ \E c \in calls :
          /\ c.pc = "merge"
          /\ result' = WriteSlice(result, c, merge(Slice(result, c), c.left, Mid(c), c.right))
          /\ calls' = Finish(c, calls,
                             c.touched \cup {c.base + i : i \in c.left..c.right})
    /\ UNCHANGED <<points, tree, query, seg_a, seg_b, segments, arr, op>>

\* parallel_merge_sort(&mut arr): arr is the array before the call, result
\* the array the calls work on
CallParallelMergeSort ==
    /\ op = "input"
    /\ op' = "parallel_merge_sort"
    /\ result' = arr
    /\ calls' = IF Len(arr) <= 1 THEN {}
                ELSE {MergeCall(<<>>, 0, Len(arr), 0, Len(arr) - 1, 0)}
    /\ UNCHANGED <<points, tree, query, seg_a, seg_b, segments, arr>>

\* parallel_quick_sort_recursive up to the recursive calls: nothing to do,
\* or partition and then the two closures handed to rayon::join, or
\* partition and the first of the plain calls
PqsEnter ==
    /\ op = "parallel_quick_sort"
    /\ \E c \in calls :
          /\ c.pc = "call"
          /\ IF ~(c.left < c.right)
             THEN /\ calls' = Finish(c, calls, c.touched)
                  /\ result' = result
             ELSE LET p == partition(result, c.left, c.right)
                      first == QuickCall(Append(c.path, 0), c.left,
                                         p.pivot_index - 1, c.depth + 1)
                      second == QuickCall(Append(c.path, 1), p.pivot_index + 1,
                                          c.right, c.depth + 1)
                      me == [c EXCEPT !.pivot_index = p.pivot_index,
                                      !.touched = c.left..c.right]
                  IN  /\ result' = p.arr
                      /\ calls' = (calls \ {c}) \cup
                            (IF UseJoin(c)
                             THEN {[me EXCEPT !.pc = "join"], second}
                                  \cup (IF p.pivot_index > 0 THEN {first} ELSE {})
                             ELSE IF p.pivot_index > 0
                             THEN {[me EXCEPT !.pc = "first"], first}
                             ELSE {[me EXCEPT !.pc = "second"], second})
    /\ UNCHANGED <<points, tree, query, seg_a, seg_b, segments, arr, op>>

\* the first plain call has returned: the second one
PqsSecond ==
    /\ op = "parallel_quick_sort"
    /\ \E c \in calls :
          /\ c.pc = "first"
          /\ JoinReturned(c, calls)
          /\ calls' = (calls \ ({c} \cup Children(c, calls))) \cup
                  {[c EXCEPT !.pc = "second",
                             !.touched = @ \cup TouchedBy(Children(c, calls))],
                   QuickCall(Append(c.path, 1), c.pivot_index + 1,
                             c.right, c.depth + 1)}
    /\ UNCHANGED <<points, tree, query, seg_a, seg_b, segments, arr, op, result>>

\* rayon::join, or the second plain call, has returned, and so does the call
PqsReturn ==
    /\ op = "parallel_quick_sort"
    /\ \E c \in calls :
          /\ c.pc \in {"join", "second"}
          /\ JoinReturned(c, calls)
          /\ calls' = Finish(c, calls \ Children(c, calls),
                             c.touched \cup TouchedBy(Children(c, calls)))
    /\ UNCHANGED <<points, tree, query, seg_a, seg_b, segments, arr, op, result>>

CallParallelQuickSort ==
    /\ op = "input"
    /\ op' = "parallel_quick_sort"
    /\ result' = arr
    /\ calls' = IF Len(arr) <= 1 THEN {}
                ELSE {QuickCall(<<>>, 0, Len(arr) - 1, 0)}
    /\ UNCHANGED <<points, tree, query, seg_a, seg_b, segments, arr>>

\* the caller builds the array
ParPushValue ==
    /\ op = "input"
    /\ Len(arr) < ParMaxLen
    /\ \E v \in 0..ParMaxVal : arr' = Append(arr, v)
    /\ UNCHANGED <<points, tree, query, seg_a, seg_b, segments, op, result, calls>>

NextParallelSort ==
    \/ ParPushValue
    \/ CallParallelMergeSort
    \/ PmsEnter
    \/ PmsSecond
    \/ PmsJoin
    \/ PmsMerge
    \/ CallParallelQuickSort
    \/ PqsEnter
    \/ PqsSecond
    \/ PqsReturn

SpecParallelSort == Init /\ [][NextParallelSort]_vars

\* ---- radix_sort
RadixValues == ((0 - RadixMaxVal)..RadixMaxVal) \cup {I32_MIN, I32_MAX}

RadixPushValue ==
    /\ op = "input"
    /\ Len(arr) < RadixMaxLen
    /\ \E v \in RadixValues : arr' = Append(arr, v)
    /\ UNCHANGED <<points, tree, query, seg_a, seg_b, segments, op, result, calls>>

\* the arrays of the unit tests
TestArrayWithNegatives == <<0 - 64, 34, 0 - 25, 12, 22, 0 - 11, 90>>

RadixLoadTestArray ==
    /\ op = "input"
    /\ arr = <<>>
    /\ arr' \in {TestArray, TestArrayWithNegatives}
    /\ UNCHANGED <<points, tree, query, seg_a, seg_b, segments, op, result, calls>>

\* radix_sort(&mut arr) in a build with overflow checks (debug profile)
CallRadixSortChecked ==
    /\ op = "input"
    /\ op' = "radix_sort"
    /\ result' = radix_sort(arr, TRUE)
    /\ UNCHANGED <<points, tree, query, seg_a, seg_b, segments, arr, calls>>

\* radix_sort(&mut arr) in a build without them (release profile)
CallRadixSortWrapping ==
    /\ op = "input"
    /\ op' = "radix_sort"
    /\ result' = radix_sort(arr, FALSE)
    /\ UNCHANGED <<points, tree, query, seg_a, seg_b, segments, arr, calls>>

NextRadixSort ==
    \/ RadixPushValue
    \/ RadixLoadTestArray
    \/ CallRadixSortChecked
    \/ CallRadixSortWrapping

SpecRadixSort == Init /\ [][NextRadixSort]_vars

\* ---------------------------------------------------------------- closest pair: properties
\* d is the least distance over the pairs of distinct positions of ps
IsMinPairDistance(ps, d) ==
    /\ \E i \in 1..Len(ps) : \E j \in (i + 1)..Len(ps) : d = distance_to(ps[i], ps[j])
    /\ \A i \in 1..Len(ps) : \A j \in (i + 1)..Len(ps) :
           ~DistLt(distance_to(ps[i], ps[j]), d)

\* C1: for n >= 2 points closest_pair_divide_conquer returns a result whose
\* distance is the one closest_pair_brute_force returns, the minimum over
\* all pairs of distinct positions.
C1_DivideConquerMatchesBruteForce ==
    (op = "closest_pair_divide_conquer" /\ Len(points) >= 2) =>
        /\ IsSome(result)
        /\ Unwrap(result).distance = Unwrap(closest_pair_brute_force(points)).distance
        /\ IsMinPairDistance(points, Unwrap(result).distance)

\* the closest pair of a 7-point input lies across the top dividing line:
\* neither half holds a pair that close
C1_Witness ==
    /\ op = "closest_pair_divide_conquer"
    /\ Len(points) = 7
    /\ LET px == sort_by_coord(points, 0)
       IN  /\ ~IsMinPairDistance(SubSeq(px, 1, 3), Unwrap(result).distance)
           /\ ~IsMinPairDistance(SubSeq(px, 4, 7), Unwrap(result).distance)

\* C5: the result of either closest-pair function names two points at
\* distinct positions of the input, its distance is the distance between
\* them, and no pair of distinct positions is strictly closer.
C5_ResultIsAClosestPair ==
    (op \in {"closest_pair_brute_force", "closest_pair_divide_conquer"} /\ IsSome(result)) =>
        LET r == Unwrap(result)
        IN  /\ \E i \in 1..Len(points) : \E j \in 1..Len(points) :
                   i # j /\ r.point1 = points[i] /\ r.point2 = points[j]
            /\ r.distance = distance_to(r.point1, r.point2)
            /\ \A i \in 1..Len(points) : \A j \in (i + 1)..Len(points) :
                   ~DistLt(distance_to(points[i], points[j]), r.distance)

\* a closest pair that is not the first pair and not a pair of equal points
C5_Witness ==
    /\ op \in {"closest_pair_brute_force", "closest_pair_divide_conquer"}
    /\ Len(points) >= 4
    /\ IsSome(result)
    /\ DistLt(Unwrap(result).distance, distance_to(points[1], points[2]))
    /\ Unwrap(result).distance > 0

DivideConquerCalled == op = "closest_pair_divide_conquer"

\* C12: for at least 2 points closest_pair_divide_conquer returns a result;
\* every call of closest_pair_rec receives an x-view of at least 2 points
\* and returns a result.
C12_DivideConquerAlwaysHasResult ==
    DivideConquerCalled /\ Len(points) >= 2 =>
        /\ IsSome(result)
        /\ \A call \in RecCalls(sort_by_coord(points, 0), sort_by_coord(points, 1)) :
              /\ Len(call.points_x) >= 2
              /\ IsSome(call.result)

\* seven points: the recursion splits twice and reaches a call on 2 points
C12_Witness ==
    /\ DivideConquerCalled
    /\ Len(points) = 7
    /\ IsSome(result)
    /\ \E call \in RecCalls(sort_by_coord(points, 0), sort_by_coord(points, 1)) :
          Len(call.points_x) = 2

BruteForceCalled == op = "closest_pair_brute_force"

\* C13: on 0 or 1 points closest_pair_brute_force and
\* closest_pair_divide_conquer both return None.
C13_FewerThanTwoPointsGiveNone ==
    (BruteForceCalled \/ DivideConquerCalled) /\ Len(points) < 2 => result = None

C13_Witness ==
    /\ DivideConquerCalled
    /\ Len(points) = 1
    /\ result = None

\* the pairs of positions i < j of ps
PositionPairs(ps) == { pr \in (1..Len(ps)) \X (1..Len(ps)) : pr[1] < pr[2] }

\* the least distance between two positions of ps
MinDistance(ps) ==
    LET distances == { distance_to(ps[pr[1]], ps[pr[2]]) : pr \in PositionPairs(ps) }
    IN  CHOOSE d \in distances : \A e \in distances : d <= e

\* the pairs of positions at that distance
MinPairs(ps) ==
    LET d == MinDistance(ps)
    IN  { pr \in PositionPairs(ps) : distance_to(ps[pr[1]], ps[pr[2]]) = d }

\* the first of them in lexicographic order
FirstMinPair(ps) ==
    LET pairs == MinPairs(ps)
    IN  CHOOSE pr \in pairs : \A other \in pairs : other = pr \/ PairLt(pr, other)

\* C14: on n >= 2 points closest_pair_brute_force compares every pair of
\* positions i < j exactly once, in ascending lexicographic order, and
\* returns the minimum-distance pair with the smallest (i, j), point1 being
\* points[i] and point2 points[j].
C14_BruteForceReturnsFirstMinimalPair ==
    BruteForceCalled /\ Len(points) >= 2 =>
        LET n == Len(points)
            compared == BruteForceCompared(points, 1, 2)
            first == FirstMinPair(points)
        IN  /\ \A k \in 1..Len(compared) :
                  1 <= compared[k][1] /\ compared[k][1] < compared[k][2] /\ compared[k][2] <= n
            /\ \A k \in 1..(Len(compared) - 1) : PairLt(compared[k], compared[k + 1])
            /\ \A i \in 1..n : \A j \in (i + 1)..n :
                  \E k \in 1..Len(compared) : compared[k] = <<i, j>>
            /\ result = Some(ClosestPairResult(points[first[1]], points[first[2]],
                                               distance_to(points[first[1]], points[first[2]])))

\* two pairs of different points tie for the minimum, and the first of
\* them is not the pair of positions the loop starts from
C14_Witness ==
    /\ BruteForceCalled
    /\ Len(points) >= 4
    /\ FirstMinPair(points) # <<1, 2>>
    /\ \E pr \in MinPairs(points) :
          <<points[pr[1]], points[pr[2]]>> # <<Unwrap(result).point1, Unwrap(result).point2>>

\* ---------------------------------------------------------------- convex hull: properties
\* p lies on the closed segment from a to b
OnClosedSegment(a, b, p) ==
    /\ a = b => p = a
    /\ cross_product(a, b, p) = 0
    /\ (p.x - a.x) * (b.x - a.x) + (p.y - a.y) * (b.y - a.y) >= 0
    /\ (p.x - b.x) * (a.x - b.x) + (p.y - b.y) * (a.y - b.y) >= 0

\* the vertex after position i, cyclically
NextVertex(h, i) == h[(i % Len(h)) + 1]

\* p lies inside or on the polygon h (vertices in counter-clockwise order;
\* a polygon of two vertices is a segment, of one vertex a point)
InsideOrOn(p, h) ==
    IF Len(h) = 0 THEN FALSE
    ELSE IF Len(h) = 1 THEN p = h[1]
    ELSE IF Len(h) = 2 THEN OnClosedSegment(h[1], h[2], p)
    ELSE \A i \in 1..Len(h) : cross_product(h[i], NextVertex(h, i), p) >= 0

HullCalled == op = "convex_hull_graham_scan" /\ Len(points) >= 3

\* C3: for at least 3 input points, every input point lies inside or on
\* the boundary of the polygon returned by convex_hull_graham_scan.
C3_HullContainsInput ==
    HullCalled => \A i \in 1..Len(points) : InsideOrOn(points[i], result)

Collinear(ps) ==
    \A i \in 1..Len(ps) : \A j \in 1..Len(ps) : \A k \in 1..Len(ps) :
        cross_product(ps[i], ps[j], ps[k]) = 0

\* the anchor: the input point with the least y, then the least x
IsAnchor(ps, a) ==
    /\ \E i \in 1..Len(ps) : ps[i] = a
    /\ \A i \in 1..Len(ps) : a.y < ps[i].y \/ (a.y = ps[i].y /\ a.x <= ps[i].x)

\* f is an input point farthest from a
IsFarthest(ps, a, f) ==
    /\ \E i \in 1..Len(ps) : ps[i] = f
    /\ \A i \in 1..Len(ps) : distance_squared_to(a, ps[i]) <= distance_squared_to(a, f)

\* C6: for at least 3 input points on one line, in any order, the scan
\* returns exactly the two extreme points: the anchor, then the point
\* farthest from it.
C6_CollinearInputGivesExtremes ==
    (HullCalled /\ Collinear(points)) =>
        /\ Len(result) = 2
        /\ IsAnchor(points, result[1])
        /\ IsFarthest(points, result[1], result[2])

\* C7: a returned sequence of at least 3 vertices is counter-clockwise:
\* consecutive triples turn strictly left, the two wrap-around triples do
\* not turn right.
C7_HullIsCounterClockwise ==
    (op = "convex_hull_graham_scan" /\ Len(result) >= 3) =>
        LET n == Len(result)
        IN  /\ \A i \in 1..(n - 2) :
                   cross_product(result[i], result[i + 1], result[i + 2]) > 0
            /\ cross_product(result[n - 1], result[n], result[1]) >= 0
            /\ cross_product(result[n], result[1], result[2]) >= 0

\* a hull of four vertices came out of an input in which the scan had to pop
C7_Witness ==
    /\ op = "convex_hull_graham_scan"
    /\ Len(result) = 4
    /\ Len(points) = 5
    /\ \E i \in 1..Len(points) : \A k \in 1..Len(result) : result[k] # points[i]

\* sorted_points of the scan
SortedPoints(ps) ==
    LET bottom_point == BottomPoint(Tail(ps), ps[1])
    IN  sort_by_angle(FilterNot(ps, bottom_point), bottom_point)

\* the stack after the first k points of sorted_points
HullAfter(bottom_point, sorted_points, k) ==
    Scan(<<bottom_point>>, SubSeq(sorted_points, 1, k))

\* C8: the first returned vertex is the input point with minimum y, then
\* minimum x; no step of the scan pops it; the square of scenario 2 gives
\* its four corners counter-clockwise from (0,0).
C8_AnchorFirstAndSquare ==
    HullCalled =>
        /\ IsAnchor(points, result[1])
        /\ LET sorted_points == SortedPoints(points)
           IN  \A k \in 0..Len(sorted_points) :
                   LET hull == HullAfter(result[1], sorted_points, k)
                   IN  Len(hull) >= 1 /\ hull[1] = result[1]
        /\ points = Square =>
               result = <<Point(0, 0), Point(1, 0), Point(1, 1), Point(0, 1)>>

\* the scan ran on the square, whose lowest row holds two points
C8_Witness == HullCalled /\ points = Square /\ Len(result) = 4

\* C18: on 0, 1 or 2 points convex_hull_graham_scan returns the input
\* sequence unchanged: same points, same order, same multiplicity.
C18_FewerThanThreePointsUnchanged ==
    op = "convex_hull_graham_scan" /\ Len(points) < 3 => result = points

\* two points of which the second is the lower one
C18_Witness ==
    /\ op = "convex_hull_graham_scan"
    /\ Len(points) = 2
    /\ points[2].y < points[1].y
    /\ result = points

\* C23: no three cyclically consecutive vertices of the sequence returned by
\* convex_hull_graham_scan are collinear, the last vertex with the anchor
\* and its successor included: no output vertex lies on a hull edge between
\* two others.
C23_NoCollinearHullVertices ==
    op = "convex_hull_graham_scan" /\ Len(result) >= 3 =>
        \A i \in 1..Len(result) :
            cross_product(result[i], NextVertex(result, i), NextVertex(result, i + 1)) # 0

\* ---------------------------------------------------------------- segments: properties
\* The closed segments a and b have a point in common.  With
\* r = a.end - a.start, s = b.end - b.start and w = b.start - a.start, a
\* common point is a.start + t r = b.start + u s with t, u in [0, 1].  When
\* r x s # 0 the solution is the single t = (w x s)/(r x s),
\* u = (w x r)/(r x s); when r x s = 0 the segments are parallel or
\* degenerate and, if they meet, an end point of one lies on the other.
SharePoint(a, b) ==
    LET rx == a.end.x - a.start.x
        ry == a.end.y - a.start.y
        sx == b.end.x - b.start.x
        sy == b.end.y - b.start.y
        wx == b.start.x - a.start.x
        wy == b.start.y - a.start.y
        den == rx * sy - ry * sx
        tn == wx * sy - wy * sx
        un == wx * ry - wy * rx
    IN  IF den > 0 THEN 0 <= tn /\ tn <= den /\ 0 <= un /\ un <= den
        ELSE IF den < 0 THEN 0 >= tn /\ tn >= den /\ 0 >= un /\ un >= den
        ELSE \/ OnClosedSegment(b.start, b.end, a.start)
             \/ OnClosedSegment(b.start, b.end, a.end)
             \/ OnClosedSegment(a.start, a.end, b.start)
             \/ OnClosedSegment(a.start, a.end, b.end)

IntersectsCalled == op = "intersects"

\* C4: a.intersects(b) is true if and only if the closed segments a and b
\* have at least one point in common.
C4_IntersectsIffSharePoint ==
    IntersectsCalled => (Unwrap(result) <=> SharePoint(seg_a, seg_b))

\* collinear segments that overlap in more than a point, neither having an
\* end point of the other as its own
C4_Witness ==
    /\ IntersectsCalled
    /\ Unwrap(result)
    /\ seg_a.start # seg_a.end /\ seg_b.start # seg_b.end
    /\ cross_product(seg_a.start, seg_a.end, seg_b.start) = 0
    /\ cross_product(seg_a.start, seg_a.end, seg_b.end) = 0
    /\ {seg_a.start, seg_a.end} \cap {seg_b.start, seg_b.end} = {}

\* C9: a.intersects(b) equals b.intersects(a).
C9_IntersectsSymmetric ==
    IntersectsCalled => (Unwrap(result) <=> intersects(seg_b, seg_a))

\* an end point of a lies inside b, and a is not b
C9_Witness ==
    /\ IntersectsCalled
    /\ Unwrap(result)
    /\ seg_a # seg_b
    /\ seg_b.start # seg_b.end
    /\ cross_product(seg_b.start, seg_b.end, seg_a.start) = 0
    /\ cross_product(seg_b.start, seg_b.end, seg_a.end) # 0
    /\ seg_a.start \notin {seg_b.start, seg_b.end}

Swapped(seg) == LineSegment(seg.end, seg.start)

\* C10: a.intersects(b) does not change when the start and end points of
\* a, of b, or of both are swapped.
C10_IntersectsIgnoresEndpointOrder ==
    IntersectsCalled =>
        /\ Unwrap(result) <=> intersects(Swapped(seg_a), seg_b)
        /\ Unwrap(result) <=> intersects(seg_a, Swapped(seg_b))
        /\ Unwrap(result) <=> intersects(Swapped(seg_a), Swapped(seg_b))

\* a proper crossing of two segments of non-zero length
C10_Witness ==
    /\ IntersectsCalled
    /\ Unwrap(result)
    /\ cross_product(seg_b.start, seg_b.end, seg_a.start)
         * cross_product(seg_b.start, seg_b.end, seg_a.end) < 0
    /\ cross_product(seg_a.start, seg_a.end, seg_b.start)
         * cross_product(seg_a.start, seg_a.end, seg_b.end) < 0

\* ---- find_intersecting_segments
FindCalled == op = "find_intersecting_segments"

\* C11: find_intersecting_segments returns exactly the index pairs (i, j),
\* 0 <= i < j < n, whose segments intersect, each once and in ascending
\* lexicographic order; fewer than two segments give the empty list.
C11_FindReturnsIntersectingPairsInOrder ==
    FindCalled =>
        LET n == Len(segments) IN
        /\ \A k \in 1..Len(result) :
              /\ 0 <= result[k][1]
              /\ result[k][1] < result[k][2]
              /\ result[k][2] < n
              /\ intersects(segments[result[k][1] + 1], segments[result[k][2] + 1])
        /\ \A i \in 0..(n - 1) : \A j \in (i + 1)..(n - 1) :
              intersects(segments[i + 1], segments[j + 1])
                  => \E k \in 1..Len(result) : result[k] = <<i, j>>
        /\ \A k \in 1..(Len(result) - 1) : PairLt(result[k], result[k + 1])
        /\ (n < 2 => result = <<>>)

\* three segments of which the first and the last do not meet
C11_Witness ==
    /\ FindCalled
    /\ Len(segments) = 3
    /\ result = << <<0, 1>>, <<1, 2>> >>

\* ---------------------------------------------------------------- index safety
\* an index expression s[index] on a slice of that length does not fail
InBounds(use) == 0 <= use[1] /\ use[1] < use[2]

\* C17: none of the six functions fails: every slice or vector index it
\* evaluates is within bounds, build_recursive is never entered with an
\* empty vector, and nearest_neighbor returns a point exactly when the
\* tree has a root.
C17_NoIndexOutOfBounds ==
    /\ BruteForceCalled => \A use \in BruteForceIndexUses(points) : InBounds(use)
    /\ DivideConquerCalled => \A use \in DivideConquerIndexUses(points) : InBounds(use)
    /\ op = "convex_hull_graham_scan" => \A use \in HullIndexUses(points) : InBounds(use)
    /\ FindCalled => \A use \in FindIndexUses(segments) : InBounds(use)
    /\ op = "build" => \A use \in BuildIndexUses(points) : InBounds(use)
    /\ op = "nearest_neighbor" => (IsSome(result) <=> IsSome(tree))

\* seven points, all at one place: the recursion of the closest pair has
\* split the 7 at index 3 and the 4 at index 2, down to a call on 2 points
C17_Witness ==
    /\ DivideConquerCalled
    /\ Len(points) = 7
    /\ \A i \in 1..Len(points) : points[i] = points[1]
    /\ {<<3, 7>>, <<2, 4>>, <<1, 2>>} \subseteq DivideConquerIndexUses(points)

\* ---------------------------------------------------------------- k-d tree: properties
\* C2: for a non-empty point set and any query, nearest_neighbor returns a
\* stored point whose squared distance to the query is the minimum over
\* the input points.
C2_NearestNeighborIsNearest ==
    (op = "nearest_neighbor" /\ Len(points) >= 1) =>
        /\ IsSome(result)
        /\ \E i \in 1..Len(points) : points[i] = Unwrap(result)
        /\ \A i \in 1..Len(points) :
               distance_squared_to(query, Unwrap(result))
                   <= distance_squared_to(query, points[i])

\* the nearest point of a 5-point tree lies strictly across the root's
\* splitting line from the query: the search had to enter the far child
C2_Witness ==
    /\ op = "nearest_neighbor"
    /\ Len(points) = 5
    /\ LET root == Unwrap(tree)
       IN  /\ Unwrap(result) # root.point
           /\ query.x < root.point.x
           /\ Unwrap(result).x > root.point.x
           /\ \A i \in 1..Len(points) :
                  points[i].x <= root.point.x =>
                      distance_squared_to(query, Unwrap(result))
                          < distance_squared_to(query, points[i])

\* how often v occurs in a
RECURSIVE Count(_, _)
Count(a, v) ==
    IF a = <<>> THEN 0
    ELSE (IF a[1] = v THEN 1 ELSE 0) + Count(Tail(a), v)

\* b holds the values of a, each as often as a does
SameMultiset(a, b) ==
    /\ Len(a) = Len(b)
    /\ \A v \in Range(a) \cup Range(b) : Count(a, v) = Count(b, v)

\* the points stored in the subtree of an Option<Box<KdNode>>
RECURSIVE SubtreePoints(_)
SubtreePoints(child) ==
    IF child = None THEN {}
    ELSE {Unwrap(child).point}
         \cup SubtreePoints(Unwrap(child).left)
         \cup SubtreePoints(Unwrap(child).right)

\* every node of the subtree separates its left from its right subtree
RECURSIVE IsOrdered(_)
IsOrdered(child) ==
    IF child = None THEN TRUE
    ELSE LET node == Unwrap(child)
             node_coord == Coord(node.point, node.dimension)
         IN  /\ \A p \in SubtreePoints(node.left) : Coord(p, node.dimension) <= node_coord
             /\ \A p \in SubtreePoints(node.right) : Coord(p, node.dimension) >= node_coord
             /\ IsOrdered(node.left)
             /\ IsOrdered(node.right)

\* C15: in a tree returned by KdTree::build, at every node with dimension
\* d, the points of the left subtree have d-coordinate <= the node's and
\* the points of the right subtree have d-coordinate >= the node's.
C15_TreeIsOrdered == op = "build" => IsOrdered(tree)

\* five points, three levels; the y-sort of the root's left half changed
\* the order of its two points
C15_Witness ==
    /\ op = "build"
    /\ Len(points) = 5
    /\ IsSome(Unwrap(Unwrap(tree).left).left)
    /\ LET left_half == SubSeq(sort_by_coord(points, 0), 1, 2)
       IN  sort_by_coord(left_half, 1) # left_half

\* the subtree of child is the median split of the slice subset, at a node
\* of the given dimension
RECURSIVE IsBuiltFrom(_, _, _)
IsBuiltFrom(child, subset, dimension) ==
    IF subset = <<>> THEN child = None
    ELSE LET sorted == sort_by_coord(subset, dimension)
             mid == Len(sorted) \div 2
         IN  /\ IsSome(child)
             /\ Unwrap(child).dimension = dimension
             /\ Unwrap(child).point = sorted[mid + 1]
             /\ IsBuiltFrom(Unwrap(child).left, SubSeq(sorted, 1, mid),
                            (dimension + 1) % 2)
             /\ IsBuiltFrom(Unwrap(child).right, SubSeq(sorted, mid + 2, Len(sorted)),
                            (dimension + 1) % 2)

\* C26: in a tree returned by KdTree::build the root has dimension 0 and a
\* child the dimension (parent dimension + 1) mod 2; the point of a node is
\* the element at index floor(len / 2) of its slice sorted by the node's
\* dimension, its left subtree is built from the elements before that index
\* and its right subtree from the elements after it.
C26_TreeIsMedianSplit == op = "build" => IsBuiltFrom(tree, points, 0)

\* five points, three levels with the dimensions 0, 1, 0, and two points
\* that tie in x at the root
C26_Witness ==
    /\ op = "build"
    /\ Len(points) = 5
    /\ Unwrap(tree).dimension = 0
    /\ Unwrap(Unwrap(tree).left).dimension = 1
    /\ Unwrap(Unwrap(Unwrap(tree).left).left).dimension = 0
    /\ \E i \in 1..5 : \E j \in 1..5 :
          points[i] # points[j] /\ points[i].x = points[j].x

\* the points of the nodes of a subtree, left subtree first
RECURSIVE TreeSeq(_)
TreeSeq(child) ==
    IF child = None THEN <<>>
    ELSE TreeSeq(Unwrap(child).left) \o <<Unwrap(child).point>>
         \o TreeSeq(Unwrap(child).right)

\* C29: the tree returned by KdTree::build stores exactly the input points,
\* each as often as the input holds it: as many nodes as input points, one
\* node for each copy of a point.
C29_TreeStoresInputMultiset ==
    op = "build" => SameMultiset(TreeSeq(tree), points)

\* five points, two of them equal, five nodes
C29_Witness ==
    /\ op = "build"
    /\ Len(points) = 5
    /\ \E i \in 1..4 : points[i] = points[i + 1]
    /\ Len(TreeSeq(tree)) = 5

\* the events of nearest_neighbor(tree, query), for a tree with a root
QueryEvents ==
    LET root == Unwrap(tree)
        acc == [best |-> root.point,
                best_distance |-> distance_squared_to(query, root.point)]
    IN  nearest_neighbor_events(root, query, acc, <<>>)

\* the statements of C30 about one query: search holds what the search
\* ended with and its events, returned is what nearest_neighbor returned,
\* root_distance the squared distance to the root's point
SearchIsSound(search, q, root_distance, returned) ==
    /\ returned = Some(search.acc.best)
    /\ \A k \in 1..Len(search.events) :
          LET event == search.events[k] IN
          /\ event.kind = "visit" /\ IsSome(event.child) =>
                /\ k < Len(search.events)
                /\ search.events[k + 1].kind = "visit"
                /\ search.events[k + 1].node = Unwrap(event.child)
          /\ event.kind = "skip" =>
                \A p \in SubtreePoints(event.child) :
                    distance_squared_to(q, p) >= event.best_distance
          /\ event.best_distance <=
                (IF k = 1 THEN root_distance ELSE search.events[k - 1].best_distance)

\* C30: during nearest_neighbor the near child of every visited node is
\* searched next; whenever the far child of a node is skipped, every point
\* of that far subtree has a squared distance to the query of at least the
\* best squared distance held at that moment; and the best squared distance
\* never increases, from the distance to the root's point on.
C30_PruningIsSound ==
    op = "nearest_neighbor" /\ IsSome(tree) =>
        SearchIsSound(QueryEvents, query,
                      distance_squared_to(query, Unwrap(tree).point), result)

\* a query that skips a far subtree which holds points, after the best
\* distance has dropped below the distance to the root's point
C30_Witness ==
    /\ op = "nearest_neighbor"
    /\ IsSome(tree)
    /\ \E k \in 1..Len(QueryEvents.events) :
          /\ QueryEvents.events[k].kind = "skip"
          /\ IsSome(QueryEvents.events[k].child)
          /\ QueryEvents.events[k].best_distance
                < distance_squared_to(query, Unwrap(tree).point)

\* C16: KdTree::build on an empty input gives a tree without a root, and
\* nearest_neighbor on a tree without a root, built or created by
\* KdTree::new, returns None for every query.
C16_EmptyTreeHasNoNearestNeighbor ==
    /\ (op = "build" /\ points = <<>> => tree = None)
    /\ (op = "new" => tree = None)
    /\ (op = "nearest_neighbor" /\ tree = None => result = None)

C16_Witness ==
    /\ op = "nearest_neighbor"
    /\ points = <<>>
    /\ tree = None
    /\ query # Origin
    /\ result = None

\* ---------------------------------------------------------------- sorting: properties
ComparisonSorts == {"merge_sort", "quick_sort", "heap_sort", "quick_sort_optimized"}

\* C19: merge_sort, quick_sort, heap_sort and quick_sort_optimized each
\* return with the array in ascending order and holding the same multiset
\* of values as before the call.
C19_ComparisonSortsSort ==
    op \in ComparisonSorts => IsAscending(result) /\ SameMultiset(arr, result)

\* quick_sort_optimized on an unsorted array with duplicates that is too
\* long for the insertion sort: it went through partition_median_of_three
C19_Witness ==
    /\ op = "quick_sort_optimized"
    /\ Len(arr) > InsertionRange
    /\ ~IsAscending(arr)
    /\ ~IsDescending(arr)
    /\ Range(arr) = SortValues
    /\ result # arr

\* ---- the parallel sorts
ParallelSortCalled == op \in {"parallel_merge_sort", "parallel_quick_sort"}

\* one of the two calls made the other, directly or not
OnOnePath(c, d) ==
    \/ Len(c.path) <= Len(d.path) /\ SubSeq(d.path, 1, Len(c.path)) = c.path
    \/ Len(d.path) <= Len(c.path) /\ SubSeq(c.path, 1, Len(d.path)) = d.path

\* the indices of the array that call c was asked to sort
CallRange(c) ==
    IF op = "parallel_merge_sort" THEN {c.base + i : i \in c.left..c.right}
    ELSE c.left..c.right

\* the array after the next write of call c, if its next step writes
AfterNextWrite(c) ==
    IF op = "parallel_merge_sort" /\ c.pc = "merge"
    THEN WriteSlice(result, c, merge(Slice(result, c), c.left, Mid(c), c.right))
    ELSE IF op = "parallel_quick_sort" /\ c.pc = "call" /\ c.left < c.right
    THEN partition(result, c.left, c.right).arr
    ELSE result

C20_RadixSortSortsWithinRange ==
    op = "radix_sort" =>
        /\ ~result.panicked
        /\ ~result.overflowed
        /\ IsAscending(result.arr)
        /\ SameMultiset(arr, result.arr)

\* ---------------------------------------------------------------- closest pair: the recursion
\* the calls of closest_pair_rec that closest_pair_divide_conquer(points) makes
TopCalls == RecCalls(sort_by_coord(points, 0), sort_by_coord(points, 1))

\* C22: at every call of closest_pair_rec the y-view holds exactly the
\* points of the x-view, each as often: the left y-subset matches the left
\* x-half and the right y-subset the right x-half, also when points have the
\* x of the midpoint.
C22_YViewMatchesXView ==
    DivideConquerCalled /\ Len(points) >= 2 =>
        \A call \in TopCalls : SameMultiset(call.points_x, call.points_y)

\* C24: in the strip scan of every call of closest_pair_rec, each strip
\* point is compared with at most 7 of the strip points after it.
C24_AtMostSevenComparisons ==
    DivideConquerCalled /\ Len(points) >= 2 =>
        \A call \in TopCalls :
            Len(call.points_x) > 3 =>
                StripScanMost(CallStrip(call), 1, 2, Unwrap(CallBest(call)), 0, 0) <= 7

\* ---------------------------------------------------------------- depth of the recursions
\* the least k with 2^k >= n, and the greatest k with 2^k <= n, for n >= 1
RECURSIVE CeilLog2(_)
CeilLog2(n) == IF n <= 1 THEN 0 ELSE 1 + CeilLog2((n + 1) \div 2)

RECURSIVE FloorLog2(_)
FloorLog2(n) == IF n <= 1 THEN 0 ELSE 1 + FloorLog2(n \div 2)

\* the number of nodes on the longest path from a child link down
RECURSIVE Height(_)
Height(child) ==
    IF child = None THEN 0
    ELSE LET left == Height(Unwrap(child).left)
             right == Height(Unwrap(child).right)
         IN  1 + (IF left >= right THEN left ELSE right)

\* C25: for n >= 2 points the calls of closest_pair_rec nest at most
\* ceil(log2 n) deep (the first call counted), every call on more than 3
\* points hands strictly fewer, and at least one, points to each recursive
\* call; for n >= 1 points the tree of KdTree::build has exactly
\* floor(log2 n) + 1 levels.
C25_RecursionDepths ==
    /\ DivideConquerCalled /\ Len(points) >= 2 =>
          /\ RecDepth(sort_by_coord(points, 0), sort_by_coord(points, 1))
                <= CeilLog2(Len(points))
          /\ \A call \in TopCalls :
                LET n == Len(call.points_x) IN
                n > 3 => n \div 2 >= 1 /\ n \div 2 < n /\ n - n \div 2 < n
    /\ op = "build" /\ Len(points) >= 1 =>
          Height(tree) = FloorLog2(Len(points)) + 1

\* a tree of three levels built from seven points with equal coordinates
C25_Witness ==
    /\ op = "build"
    /\ Len(points) = 7
    /\ \E i \in 1..6 : points[i] = points[i + 1]
    /\ Height(tree) = 3

\* ---------------------------------------------------------------- closest pair: what a call returns
\* the views of the first call of closest_pair_rec
TopViews ==
    [points_x |-> sort_by_coord(points, 0), points_y |-> sort_by_coord(points, 1)]

\* (a) and (b) of C27, for one call
ReturnsInputDistance(call) ==
    /\ \E pair \in PositionPairs(points) :
          Unwrap(call.result).distance = distance_to(points[pair[1]], points[pair[2]])
    /\ Len(call.points_x) > 3 =>
          DistLe(Unwrap(call.result).distance, Unwrap(CallBest(call)).distance)

\* the pairs (i, j) of positions of the x-view points_x, i in the left half
\* and j in the right half, whose points are closer than distance
CloseCrossPairs(points_x, distance) ==
    LET n == Len(points_x)
        mid == n \div 2
    IN  {pair \in (1..mid) \X ((mid + 1)..n) :
            DistLt(distance_to(points_x[pair[1]], points_x[pair[2]]), distance)}

\* the strip scan computed the distance of the points p and q
IsCompared(compared, strip, p, q) ==
    \E pair \in compared :
        \/ strip[pair[1]] = p /\ strip[pair[2]] = q
        \/ strip[pair[1]] = q /\ strip[pair[2]] = p

\* every close pair of opposite halves of points_x is compared
EveryClosePairCompared(points_x, strip, best, scan) ==
    \A pair \in CloseCrossPairs(points_x, best.distance) :
        IsCompared(scan.compared, strip, points_x[pair[1]], points_x[pair[2]])

\* the scan ends with the returned result, and every close pair of opposite
\* halves is compared or differs in y by at least the returned distance
ClosePairsThatMatterCompared(points_x, strip, best, scan) ==
    /\ result = Some(scan.min_result)
    /\ \A pair \in CloseCrossPairs(points_x, best.distance) :
          \/ IsCompared(scan.compared, strip, points_x[pair[1]], points_x[pair[2]])
          \/ ~CoordLtDist(Abs(points_x[pair[1]].y - points_x[pair[2]].y),
                          scan.min_result.distance)

\* the two statements about a call, given the better result of its
\* recursive calls and then the strip: the strip scan is the one of the call
AsStatedWith(points_x, strip, best) ==
    EveryClosePairCompared(points_x, strip, best,
                           StripScanCompared(strip, 1, 2, best, {}))

AsStated(call, best) ==
    AsStatedWith(call.points_x,
                 Strip(call.points_y, call.points_x[Len(call.points_x) \div 2 + 1].x,
                       best.distance),
                 best)

AmendedWith(points_x, strip, best) ==
    ClosePairsThatMatterCompared(points_x, strip, best,
                                 StripScanCompared(strip, 1, 2, best, {}))

Amended(call, best) ==
    AmendedWith(call.points_x,
                Strip(call.points_y, call.points_x[Len(call.points_x) \div 2 + 1].x,
                      best.distance),
                best)

\* C27, as stated: every call of closest_pair_rec returns the distance of
\* two points at distinct positions of the input, not greater than the
\* results of its two recursive calls, and the strip scan of the first call
\* compares every pair of points of opposite halves that is closer than the
\* better of those two results.
C27_StripComparesEveryCloseCrossPair ==
    DivideConquerCalled /\ Len(points) >= 2 =>
        /\ \A call \in TopCalls : ReturnsInputDistance(call)
        /\ Len(points) > 3 => AsStated(TopViews, Unwrap(CallBest(TopViews)))

\* C27, amended: every call of closest_pair_rec returns the distance of two
\* points at distinct positions of the input, not greater than the results
\* of its two recursive calls; the strip scan of the first call, which ends
\* with the returned result, compares every pair of points of opposite
\* halves that is closer than the better of those two results, except pairs
\* whose difference in y is at least the returned distance.
C27_StripComparesCrossPairsThatMatter ==
    DivideConquerCalled /\ Len(points) >= 2 =>
        /\ \A call \in TopCalls : ReturnsInputDistance(call)
        /\ Len(points) > 3 => Amended(TopViews, Unwrap(CallBest(TopViews)))

\* a pair of opposite halves, closer than both halves' results, that the
\* strip scan never compares
C27_Witness ==
    /\ DivideConquerCalled
    /\ Len(points) > 3
    /\ ~AsStated(TopViews, Unwrap(CallBest(TopViews)))

\* ---------------------------------------------------------------- closest pair: order of the views
\* s is in non-decreasing order of the coordinate of the dimension
IsSortedBy(s, dimension) ==
    \A i \in 1..(Len(s) - 1) : Coord(s[i], dimension) <= Coord(s[i + 1], dimension)

\* s is t with some elements left out
RECURSIVE IsSubsequence(_, _)
IsSubsequence(s, t) ==
    IF s = <<>> THEN TRUE
    ELSE IF t = <<>> THEN FALSE
    ELSE IF s[1] = t[1] THEN IsSubsequence(Tail(s), Tail(t))
    ELSE IsSubsequence(s, Tail(t))

\* the y-subsets and the strip of a call are its y-view with elements left
\* out, and the strip is in order of y
PartsKeepOrder(points_y, mx, strip) ==
    /\ IsSubsequence(LeftY(points_y, mx), points_y)
    /\ IsSubsequence(RightY(points_y, mx), points_y)
    /\ IsSubsequence(strip, points_y)
    /\ IsSortedBy(strip, 1)

\* C28: at every call of closest_pair_rec the x-view is in non-decreasing
\* order of x and the y-view in non-decreasing order of y; the y-subsets
\* handed to the recursive calls and the strip are the y-view with elements
\* left out, in the same order, so the strip too is in non-decreasing order
\* of y.
C28_ViewsStaySorted ==
    DivideConquerCalled /\ Len(points) >= 2 =>
        \A call \in TopCalls :
            /\ IsSortedBy(call.points_x, 0)
            /\ IsSortedBy(call.points_y, 1)
            /\ Len(call.points_x) > 3 =>
                  PartsKeepOrder(call.points_y,
                                 call.points_x[Len(call.points_x) \div 2 + 1].x,
                                 CallStrip(call))

\* strip holds points of different y
HoldsTwoRows(strip) ==
    \E i \in 1..Len(strip) : \E j \in 1..Len(strip) : strip[i].y < strip[j].y

\* a call below the first one whose views differ in order and whose strip
\* holds points of both y values
C28_Witness ==
    /\ DivideConquerCalled
    /\ \E call \in TopCalls :
          /\ Len(call.points_x) > 3
          /\ Len(call.points_x) < Len(points)
          /\ call.points_x # call.points_y
          /\ HoldsTwoRows(CallStrip(call))

====
